---- MODULE Spec2Model ----
(***************************************************************************)
(* Verification model of the puzzle-solution scripts.                      *)
(*                                                                         *)
(* The scripts are independent, so the model has one specification per     *)
(* group of scripts:                                                       *)
(*   SpecDial     AoC 2025 day 1, the safe dial (d01.py and d01-range.py)  *)
(*   SpecMain     the main / test_solution harness the scripts share       *)
(*   SpecCircuit  AoC 2025 day 8, CircuitNetwork (union-find)              *)
(* Each specification moves its own variables and leaves the others idle.  *)
(***************************************************************************)
EXTENDS Integers, Sequences, FiniteSets, TLC

VARIABLES
    \* ---- the dial (AoC 2025 d01) ----
    run,            \* "sample": the bundled sample is fed; "free": any instructions
    dial_nums,      \* parameter dial_nums of part1 / part2
    start,          \* parameter start of part1 / part2
    data,           \* the instructions consumed so far by the four loops
    d01p1,          \* locals of d01.py part1:       [curr_pos, zero_counter]
    rngp1,          \* locals of d01-range.py part1: [curr_pos, zero_counter]
    d01p2,          \* locals of d01.py part2:       [curr_pos, zero_counter]
    rngp2,          \* locals of d01-range.py part2: [curr_pos, zero_counter,
                    \*   direction, clicks (iterations of range(clicks) left)]
    \* ---- a script run: main() and test_solution() ----
    script,         \* the script that runs
    input_ok,       \* whether the puzzle input file can be fetched and read
    num_samples,    \* length of the sample lists handed to test_solution
    pc,             \* where the run is: "main", "test", "solve", "returned", "exited"
    part,           \* the part main() is at
    sample,         \* index of the next sample in test_solution's loop
    main_ret,       \* what main() returned
    exit_code,      \* the exit status of the process
    log,            \* what the run did and logged, in order
    \* ---- CircuitNetwork (AoC 2025 d08) ----
    circuit_leader, \* self.circuit_leader
    circuit_count,  \* self.circuit_count
    call,           \* the last call: [op, box1, box2, ret]
    before,         \* circuit_leader and circuit_count when the last call began
    \* ---- part2 of AoC 2025 d08 (the junction boxes) ----
    junction_boxes, \* part2: boxes
    uf,             \* part2: uf, [circuit_leader, circuit_count]
    conn,           \* part2: connections taken from the sorted list so far
    p2ret,          \* part2: [returned, none, value]
    \* ---- merge_intervals (AoC 2025 d05, AoC 2022 d15) ----
    iv_fn,          \* the script called: "d05" or "d15"
    iv_given,       \* the list of intervals as it was handed to the merge
    iv_intervals,   \* the same list object after the call (sorted and written to in place)
    iv_merged,      \* the last merge: [done, raised, stack]
    iv_total,       \* part2 / coverage_for_row: [done, raised, value]
    \* ---- part1 and part2 of AoC 2025 d07 (the tachyon manifold) ----
    tm_fn,          \* the function called: "part1" or "part2"
    tm_array,       \* grid.array, tm_array[y + 1][x + 1] is the cell at Point(x, y)
    tm_queue,       \* part1: queue
    tm_explored,    \* part1: explored
    tm_splits,      \* part1: splits
    tm_enqueued,    \* every point appended to the queue so far, in order
    tm_cache,       \* part2: the cache of count_timelines
    tm_ret,         \* the return: [done, value]
    \* ---- part2 of AoC 2025 d04 (the rolls of paper) ----
    fk_array,       \* grid.array
    fk_vis,         \* part2: vis is set
    fk_removed,     \* part2: rolls_removed
    fk_ret,         \* part2: [done, value]
    fk_before,      \* grid.array when the last round began
    fk_rolls,       \* the number of rolls in the input
    fk_rounds,      \* the rounds that removed rolls so far
    \* ---- part1 and part2 of AoC 2025 d03 (the battery banks) ----
    jb_fn,          \* the function called: "part1" or "part2"
    jb_data,        \* part1: data, the banks
    jb_num,         \* part1: num_batteries
    jb_banks,       \* the banks gone through so far
    jb_max_joltages,\* part1: max_joltages
    jb_picked,      \* the values bank_index took, bank by bank
    jb_ret,         \* part1: [done, raised, value]
    \* ---- Machine.get_presses (AoC 2025 d10) ----
    mc_target_state,\* self.target_state
    mc_button_masks,\* self.button_masks
    mc_ret,         \* get_presses: [done, raised, value]
    \* ---- part1 and part2 of AoC 2025 d09 (the red and green tiles) ----
    pg_red_tiles,   \* part2: red_tiles, the corners in the order of the input
    pg_part1,       \* part1: [done, value]
    pg_part2,       \* part2: [done, value]
    \* ---- part2 of AoC 2018 d01 (the repeated frequency) ----
    fq_data,        \* part2: data, the lines of the input
    fq_next,        \* the place in data of the line that cycle(data) gives next
    fq_freq,        \* part2: freq
    fq_seen,        \* part2: seen
    fq_ret,         \* part2: [done, value]
    fq_trail,       \* the starting frequency and the frequency after every change so far
    \* ---- part1 and part2 of AoC 2018 d03 (the claims on the fabric) ----
    fc_claims,      \* process_data(data): the claims of the input, in its order
    fc_part1,       \* part1: [done, value]
    fc_part2        \* part2: [done, raised, value]

dialVars == <<run, dial_nums, start, data, d01p1, rngp1, d01p2, rngp2>>
mainVars == <<script, input_ok, num_samples, pc, part, sample, main_ret, exit_code, log>>
circuitVars == <<circuit_leader, circuit_count, call, before>>
junctionVars == <<junction_boxes, uf, conn, p2ret>>
intervalVars == <<iv_fn, iv_given, iv_intervals, iv_merged, iv_total>>
beamVars == <<tm_fn, tm_array, tm_queue, tm_explored, tm_splits, tm_enqueued, tm_cache, tm_ret>>
forkliftVars == <<fk_array, fk_vis, fk_removed, fk_ret, fk_before, fk_rolls, fk_rounds>>
joltageVars == <<jb_fn, jb_data, jb_num, jb_banks, jb_max_joltages, jb_picked, jb_ret>>
machineVars == <<mc_target_state, mc_button_masks, mc_ret>>
polygonVars == <<pg_red_tiles, pg_part1, pg_part2>>
frequencyVars == <<fq_data, fq_next, fq_freq, fq_seen, fq_ret, fq_trail>>
fabricVars == <<fc_claims, fc_part1, fc_part2>>

vars == <<dialVars, mainVars, circuitVars, junctionVars, intervalVars, beamVars, forkliftVars, joltageVars, machineVars, polygonVars, frequencyVars, fabricVars>>

\* the variables of a group of scripts that is not running
DialIdle ==
    /\ run = "idle"
    /\ dial_nums = 0
    /\ start = 0
    /\ data = <<>>
    /\ d01p1 = <<>>
    /\ rngp1 = <<>>
    /\ d01p2 = <<>>
    /\ rngp2 = <<>>

MainIdle ==
    /\ script = "idle"
    /\ input_ok = FALSE
    /\ num_samples = 0
    /\ pc = "idle"
    /\ part = 0
    /\ sample = 0
    /\ main_ret = "idle"
    /\ exit_code = 0
    /\ log = <<>>

CircuitIdle ==
    /\ circuit_leader = <<>>
    /\ circuit_count = 0
    /\ call = <<>>
    /\ before = <<>>

JunctionIdle ==
    /\ junction_boxes = <<>>
    /\ uf = <<>>
    /\ conn = 0
    /\ p2ret = <<>>

IntervalIdle ==
    /\ iv_fn = "idle"
    /\ iv_given = <<>>
    /\ iv_intervals = <<>>
    /\ iv_merged = <<>>
    /\ iv_total = <<>>

BeamIdle ==
    /\ tm_fn = "idle"
    /\ tm_array = <<>>
    /\ tm_queue = <<>>
    /\ tm_explored = {}
    /\ tm_splits = 0
    /\ tm_enqueued = <<>>
    /\ tm_cache = <<>>
    /\ tm_ret = <<>>

ForkliftIdle ==
    /\ fk_array = <<>>
    /\ fk_vis = FALSE
    /\ fk_removed = 0
    /\ fk_ret = <<>>
    /\ fk_before = <<>>
    /\ fk_rolls = 0
    /\ fk_rounds = 0

JoltageIdle ==
    /\ jb_fn = "idle"
    /\ jb_data = <<>>
    /\ jb_num = 0
    /\ jb_banks = 0
    /\ jb_max_joltages = <<>>
    /\ jb_picked = <<>>
    /\ jb_ret = <<>>

MachineIdle ==
    /\ mc_target_state = 0
    /\ mc_button_masks = <<>>
    /\ mc_ret = <<>>

PolygonIdle ==
    /\ pg_red_tiles = <<>>
    /\ pg_part1 = <<>>
    /\ pg_part2 = <<>>

FrequencyIdle ==
    /\ fq_data = <<>>
    /\ fq_next = 0
    /\ fq_freq = 0
    /\ fq_seen = {}
    /\ fq_ret = <<>>
    /\ fq_trail = <<>>

FabricIdle ==
    /\ fc_claims = <<>>
    /\ fc_part1 = <<>>
    /\ fc_part2 = <<>>

\* for each group, the variables of the other groups, and their being idle
dialRest == <<mainVars, circuitVars, junctionVars, intervalVars, beamVars, forkliftVars, joltageVars, machineVars, polygonVars, frequencyVars, fabricVars>>
DialRestIdle ==
    /\ MainIdle
    /\ CircuitIdle
    /\ JunctionIdle
    /\ IntervalIdle
    /\ BeamIdle
    /\ ForkliftIdle
    /\ JoltageIdle
    /\ MachineIdle
    /\ PolygonIdle
    /\ FrequencyIdle
    /\ FabricIdle

mainRest == <<dialVars, circuitVars, junctionVars, intervalVars, beamVars, forkliftVars, joltageVars, machineVars, polygonVars, frequencyVars, fabricVars>>
MainRestIdle ==
    /\ DialIdle
    /\ CircuitIdle
    /\ JunctionIdle
    /\ IntervalIdle
    /\ BeamIdle
    /\ ForkliftIdle
    /\ JoltageIdle
    /\ MachineIdle
    /\ PolygonIdle
    /\ FrequencyIdle
    /\ FabricIdle

circuitRest == <<dialVars, mainVars, junctionVars, intervalVars, beamVars, forkliftVars, joltageVars, machineVars, polygonVars, frequencyVars, fabricVars>>
CircuitRestIdle ==
    /\ DialIdle
    /\ MainIdle
    /\ JunctionIdle
    /\ IntervalIdle
    /\ BeamIdle
    /\ ForkliftIdle
    /\ JoltageIdle
    /\ MachineIdle
    /\ PolygonIdle
    /\ FrequencyIdle
    /\ FabricIdle

junctionRest == <<dialVars, mainVars, circuitVars, intervalVars, beamVars, forkliftVars, joltageVars, machineVars, polygonVars, frequencyVars, fabricVars>>
JunctionRestIdle ==
    /\ DialIdle
    /\ MainIdle
    /\ CircuitIdle
    /\ IntervalIdle
    /\ BeamIdle
    /\ ForkliftIdle
    /\ JoltageIdle
    /\ MachineIdle
    /\ PolygonIdle
    /\ FrequencyIdle
    /\ FabricIdle

intervalRest == <<dialVars, mainVars, circuitVars, junctionVars, beamVars, forkliftVars, joltageVars, machineVars, polygonVars, frequencyVars, fabricVars>>
IntervalRestIdle ==
    /\ DialIdle
    /\ MainIdle
    /\ CircuitIdle
    /\ JunctionIdle
    /\ BeamIdle
    /\ ForkliftIdle
    /\ JoltageIdle
    /\ MachineIdle
    /\ PolygonIdle
    /\ FrequencyIdle
    /\ FabricIdle

beamRest == <<dialVars, mainVars, circuitVars, junctionVars, intervalVars, forkliftVars, joltageVars, machineVars, polygonVars, frequencyVars, fabricVars>>
BeamRestIdle ==
    /\ DialIdle
    /\ MainIdle
    /\ CircuitIdle
    /\ JunctionIdle
    /\ IntervalIdle
    /\ ForkliftIdle
    /\ JoltageIdle
    /\ MachineIdle
    /\ PolygonIdle
    /\ FrequencyIdle
    /\ FabricIdle

forkliftRest == <<dialVars, mainVars, circuitVars, junctionVars, intervalVars, beamVars, joltageVars, machineVars, polygonVars, frequencyVars, fabricVars>>
ForkliftRestIdle ==
    /\ DialIdle
    /\ MainIdle
    /\ CircuitIdle
    /\ JunctionIdle
    /\ IntervalIdle
    /\ BeamIdle
    /\ JoltageIdle
    /\ MachineIdle
    /\ PolygonIdle
    /\ FrequencyIdle
    /\ FabricIdle

joltageRest == <<dialVars, mainVars, circuitVars, junctionVars, intervalVars, beamVars, forkliftVars, machineVars, polygonVars, frequencyVars, fabricVars>>
JoltageRestIdle ==
    /\ DialIdle
    /\ MainIdle
    /\ CircuitIdle
    /\ JunctionIdle
    /\ IntervalIdle
    /\ BeamIdle
    /\ ForkliftIdle
    /\ MachineIdle
    /\ PolygonIdle
    /\ FrequencyIdle
    /\ FabricIdle

machineRest == <<dialVars, mainVars, circuitVars, junctionVars, intervalVars, beamVars, forkliftVars, joltageVars, polygonVars, frequencyVars, fabricVars>>
MachineRestIdle ==
    /\ DialIdle
    /\ MainIdle
    /\ CircuitIdle
    /\ JunctionIdle
    /\ IntervalIdle
    /\ BeamIdle
    /\ ForkliftIdle
    /\ JoltageIdle
    /\ PolygonIdle
    /\ FrequencyIdle
    /\ FabricIdle

polygonRest == <<dialVars, mainVars, circuitVars, junctionVars, intervalVars, beamVars, forkliftVars, joltageVars, machineVars, frequencyVars, fabricVars>>
PolygonRestIdle ==
    /\ DialIdle
    /\ MainIdle
    /\ CircuitIdle
    /\ JunctionIdle
    /\ IntervalIdle
    /\ BeamIdle
    /\ ForkliftIdle
    /\ JoltageIdle
    /\ MachineIdle
    /\ FrequencyIdle
    /\ FabricIdle

frequencyRest == <<dialVars, mainVars, circuitVars, junctionVars, intervalVars, beamVars, forkliftVars, joltageVars, machineVars, polygonVars, fabricVars>>
FrequencyRestIdle ==
    /\ DialIdle
    /\ MainIdle
    /\ CircuitIdle
    /\ JunctionIdle
    /\ IntervalIdle
    /\ BeamIdle
    /\ ForkliftIdle
    /\ JoltageIdle
    /\ MachineIdle
    /\ PolygonIdle
    /\ FabricIdle

fabricRest == <<dialVars, mainVars, circuitVars, junctionVars, intervalVars, beamVars, forkliftVars, joltageVars, machineVars, polygonVars, frequencyVars>>
FabricRestIdle ==
    /\ DialIdle
    /\ MainIdle
    /\ CircuitIdle
    /\ JunctionIdle
    /\ IntervalIdle
    /\ BeamIdle
    /\ ForkliftIdle
    /\ JoltageIdle
    /\ MachineIdle
    /\ PolygonIdle
    /\ FrequencyIdle

-----------------------------------------------------------------------------
(* Bounds of the model *)

MaxDial == 3
MaxClicks == 5
MaxInstr == 2
MaxSamples == 2
MaxAnswer == 1
MaxBoxes == 4

-----------------------------------------------------------------------------
(* AoC 2025 d01: text of an instruction, and its parsing *)

DigitChars == <<"0", "1", "2", "3", "4", "5", "6", "7", "8", "9">>

\* the value of one decimal digit character
DigitVal(c) == (CHOOSE i \in 1..10 : DigitChars[i] = c) - 1

\* Python's int() on a non-empty string of decimal digits
RECURSIVE int(_)
int(s) ==
    IF Len(s) = 1 THEN DigitVal(s[1])
    ELSE 10 * int(SubSeq(s, 1, Len(s) - 1)) + DigitVal(s[Len(s)])

\* the decimal text of a natural number, as the puzzle input writes it
RECURSIVE str(_)
str(n) ==
    IF n < 10 THEN <<DigitChars[n + 1]>>
    ELSE Append(str(n \div 10), DigitChars[(n % 10) + 1])

\* an instruction line: the direction letter followed by the click count
Instruction(direction, clicks) == <<direction>> \o str(clicks)

\* default parameters of part1 / part2
DefaultStart == 50
DefaultDialNums == 100

\* the sample bundled in main()
SampleInput ==
    << <<"L", "6", "8">>, <<"L", "3", "0">>, <<"R", "4", "8">>, <<"L", "5">>,
       <<"R", "6", "0">>, <<"L", "5", "5">>, <<"L", "1">>, <<"L", "9", "9">>,
       <<"R", "1", "4">>, <<"L", "8", "2">> >>

-----------------------------------------------------------------------------
(* AoC 2025 d01: one iteration of each function's loop over data.          *)
(* Each takes the function's locals and returns them after the iteration.  *)

\* d01.py part1 with the left rotation taken as a right one
d01_part1_body_noleft(loc, instruction, n) ==
    LET clicks   == int(Tail(instruction))
        curr_pos == (loc.curr_pos + clicks) % n
    IN  [curr_pos     |-> curr_pos,
         zero_counter |-> IF curr_pos = 0 THEN loc.zero_counter + 1
                                          ELSE loc.zero_counter]

\* d01.py part1, body of `for instruction in data`
d01_part1_body(loc, instruction, n) ==
    LET direction == instruction[1]
        clicks0   == int(Tail(instruction))
        clicks    == IF direction = "L" THEN n - clicks0 ELSE clicks0
        curr_pos  == (loc.curr_pos + clicks) % n
    IN  [curr_pos     |-> curr_pos,
         zero_counter |-> IF curr_pos = 0 THEN loc.zero_counter + 1
                                          ELSE loc.zero_counter]

\* d01-range.py part1, body of `for instruction in data`
range_part1_body(loc, instruction, n) ==
    LET direction == instruction[1]
        clicks0   == int(Tail(instruction))
        clicks    == IF direction = "L" THEN n - clicks0 ELSE clicks0
        curr_pos  == (loc.curr_pos + clicks) % n
    IN  [curr_pos     |-> curr_pos,
         zero_counter |-> IF curr_pos = 0 THEN loc.zero_counter + 1
                                          ELSE loc.zero_counter]

\* d01-range.py part2, top of the body of `for instruction in data`:
\* the direction and the click count of the instruction are read
range_part2_body(loc, instruction, n) ==
    [loc EXCEPT !.direction = instruction[1],
                !.clicks    = int(Tail(instruction))]

\* the click with the test for 0 made before the dial moves
range_part2_click_early(loc, n) ==
    LET curr_pos == IF loc.direction = "R" THEN (loc.curr_pos + 1) % n
                                           ELSE (loc.curr_pos - 1) % n
    IN  [loc EXCEPT !.curr_pos     = curr_pos,
                    !.zero_counter = IF loc.curr_pos = 0 THEN @ + 1 ELSE @,
                    !.clicks       = @ - 1]

\* d01-range.py part2, body of `for _ in range(clicks)`: one click
range_part2_click(loc, n) ==
    LET curr_pos == IF loc.direction = "R" THEN (loc.curr_pos + 1) % n
                                           ELSE (loc.curr_pos - 1) % n
    IN  [loc EXCEPT !.curr_pos     = curr_pos,
                    !.zero_counter = IF curr_pos = 0 THEN @ + 1 ELSE @,
                    !.clicks       = @ - 1]

\* the closed form without the count of the final landing on 0
d01_part2_body_nolanding(loc, instruction, n) ==
    LET direction == instruction[1]
        clicks    == int(Tail(instruction))
        curr_pos  == loc.curr_pos
        zero      == loc.zero_counter
    IN  IF direction = "R"
        THEN [curr_pos     |-> (curr_pos + clicks) % n,
              zero_counter |-> zero + ((curr_pos + clicks) \div n)]
        ELSE LET new_pos == (curr_pos - clicks) % n
                 added   ==
                     IF curr_pos = 0 THEN clicks \div n
                     ELSE IF clicks > curr_pos
                          THEN ((clicks - curr_pos - 1) \div n) + 1
                     ELSE IF clicks = curr_pos THEN 1
                     ELSE 0
             IN  [curr_pos |-> new_pos, zero_counter |-> zero + added]

\* d01.py part2, body of `for instruction in data` (closed form)
d01_part2_body(loc, instruction, n) ==
    LET direction == instruction[1]
        clicks    == int(Tail(instruction))
        curr_pos  == loc.curr_pos
        zero      == loc.zero_counter
    IN  IF direction = "R"
        THEN [curr_pos     |-> (curr_pos + clicks) % n,
              zero_counter |-> zero + ((curr_pos + clicks) \div n)]
        ELSE LET new_pos == (curr_pos - clicks) % n
                 added   ==
                     IF curr_pos = 0 THEN clicks \div n
                     ELSE IF clicks > curr_pos
                          THEN ((clicks - curr_pos - 1) \div n) + 1
                               + (IF new_pos = 0 THEN 1 ELSE 0)
                     ELSE IF clicks = curr_pos THEN 1
                     ELSE 0
             IN  [curr_pos |-> new_pos, zero_counter |-> zero + added]

\* the locals of part1 / part2 before the loop
InitLocals(s) == [curr_pos |-> s, zero_counter |-> 0]

-----------------------------------------------------------------------------
(* SpecDial *)

DialInit ==
    /\ run \in {"sample", "free"}
    /\ IF run = "sample"
       THEN dial_nums = DefaultDialNums /\ start = DefaultStart
       ELSE dial_nums \in 1..MaxDial /\ start \in 0..(dial_nums - 1)
    /\ data = <<>>
    /\ d01p1 = InitLocals(start)
    /\ rngp1 = InitLocals(start)
    /\ d01p2 = InitLocals(start)
    /\ rngp2 = [curr_pos |-> start, zero_counter |-> 0,
                direction |-> "R", clicks |-> 0]
    /\ DialRestIdle

\* The four loops take the next instruction.  part1 (both files) and the closed
\* form part2 finish their iteration; the simulation reads the instruction and
\* is left with its clicks to make.
Consume(instruction) ==
    /\ rngp2.clicks = 0
    /\ data' = Append(data, instruction)
    /\ d01p1' = d01_part1_body(d01p1, instruction, dial_nums)
    /\ rngp1' = range_part1_body(rngp1, instruction, dial_nums)
    /\ d01p2' = d01_part2_body(d01p2, instruction, dial_nums)
    /\ rngp2' = range_part2_body(rngp2, instruction, dial_nums)
    /\ UNCHANGED <<run, dial_nums, start, dialRest>>

\* the next line of the bundled sample
SampleRotate ==
    /\ run = "sample"
    /\ Len(data) < Len(SampleInput)
    /\ Consume(SampleInput[Len(data) + 1])

\* any next instruction
Rotate ==
    /\ run = "free"
    /\ Len(data) < MaxInstr
    /\ \E direction \in {"L", "R"}, clicks \in 0..MaxClicks :
          Consume(Instruction(direction, clicks))

\* the simulation makes one click of the instruction it is at
Click ==
    /\ rngp2.clicks > 0
    /\ rngp2' = range_part2_click(rngp2, dial_nums)
    /\ UNCHANGED <<run, dial_nums, start, data, d01p1, rngp1, d01p2>>
    /\ UNCHANGED dialRest

DialNext == SampleRotate \/ Rotate \/ Click

SpecDial == DialInit /\ [][DialNext]_vars

-----------------------------------------------------------------------------
(* AoC 2025 d01: what the puzzle asks for, stated on the whole input *)

Sign(instruction) == IF instruction[1] = "R" THEN 1 ELSE -1

\* the signed number of clicks made by the first j instructions of d
RECURSIVE Offset(_, _)
Offset(d, j) ==
    IF j = 0 THEN 0
    ELSE Offset(d, j - 1) + Sign(d[j]) * int(Tail(d[j]))

\* where the dial points after the first j instructions and k clicks of the next
PointsAt(d, j, k) ==
    (start + Offset(d, j) + (IF k = 0 THEN 0 ELSE Sign(d[j + 1]) * k)) % dial_nums

\* the clicks of instruction j the simulation has made so far
ClicksMade(j) ==
    IF j < Len(data) THEN int(Tail(data[j]))
    ELSE int(Tail(data[j])) - rngp2.clicks

\* the clicks <<j, k>> (k-th click of instruction j) made so far after which the
\* dial points at 0
ZeroClicks ==
    UNION { { <<j, k>> : k \in { c \in 1..ClicksMade(j) : PointsAt(data, j - 1, c) = 0 } }
            : j \in 1..Len(data) }

\* the instructions after which the dial points at 0
ZeroLandings == { j \in 1..Len(data) : PointsAt(data, j, 0) = 0 }

\* every loop is between two instructions, and the sample is used up
SampleDone ==
    run = "sample" /\ Len(data) = Len(SampleInput) /\ rngp2.clicks = 0

-----------------------------------------------------------------------------
(* Claims on the dial *)

\* C1: part2 of d01-range.py returns the number of individual clicks after which
\* the dial points at 0, intermediate crossings and final landings alike (the
\* count kept by the loop is that number after every click); for the bundled
\* sample the count returned is 6.
C1_RangePart2CountsZeroClicks ==
    /\ rngp2.zero_counter = Cardinality(ZeroClicks)
    /\ SampleDone => rngp2.zero_counter = 6

\* the sample has been run to its end, with crossings that are no landings
C1_Witness ==
    /\ SampleDone
    /\ rngp2.zero_counter = 6
    /\ Cardinality(ZeroLandings) < rngp2.zero_counter

\* C2: after each instruction the closed form part2 of d01.py has the same count
\* and the same dial position as the click-by-click part2 of d01-range.py, for
\* every dial size >= 1 and every start in 0..dial_nums-1.
C2_ClosedFormEqualsSimulation ==
    rngp2.clicks = 0 =>
        /\ d01p2.zero_counter = rngp2.zero_counter
        /\ d01p2.curr_pos = rngp2.curr_pos

\* a left rotation from a position other than 0 that goes round the dial more
\* than once and lands on 0
C2_Witness ==
    /\ run = "free" /\ Len(data) > 0 /\ rngp2.clicks = 0
    /\ LET last == data[Len(data)]
           from == PointsAt(data, Len(data) - 1, 0)
       IN  /\ last[1] = "L"
           /\ from > 0
           /\ int(Tail(last)) >= from + dial_nums
           /\ d01p2.curr_pos = 0
           /\ dial_nums > 1

\* what C3 says of one part1
Part1Right(loc) ==
    /\ loc.curr_pos \in 0..(dial_nums - 1)
    /\ loc.curr_pos = PointsAt(data, Len(data), 0)
    /\ loc.zero_counter = Cardinality(ZeroLandings)
    /\ SampleDone => loc.zero_counter = 3

\* C3: part1, in d01.py and in d01-range.py, returns the number of instructions
\* after whose complete rotation the dial points at 0; its position stays in
\* 0..dial_nums-1, also when a click count exceeds dial_nums; for the bundled
\* sample the count is 3.
C3_Part1CountsZeroLandings == Part1Right(d01p1) /\ Part1Right(rngp1)

\* a left rotation of more clicks than the dial has positions, landing on 0
C3_Witness ==
    /\ run = "free" /\ Len(data) > 0
    /\ data[Len(data)][1] = "L"
    /\ int(Tail(data[Len(data)])) > dial_nums
    /\ Len(data) \in ZeroLandings
    /\ rngp1.zero_counter > 0

-----------------------------------------------------------------------------
(* A script run: main() and test_solution().                               *)
(* The scripts share one template; they differ in what test_solution does  *)
(* when a sample fails, and in the number of parts main() runs.            *)

Scripts ==
    {"2025/d01-range", "2025/d01", "2025/d08", "2025/d12",
     "2018/d01", "2018/d02", "2018/d14", "2018/d18"}

\* what test_solution does with the AssertionError of a failed sample:
\*   "exit"   except AssertionError: logger.error(...); sys.exit(1)
\*   "ignore" except AssertionError: logger.error(...)   (2025 d12)
\*   "raise"  no try: the error leaves test_solution and main (2018 d01, d14)
OnFail(s) ==
    CASE s = "2025/d12" -> "ignore"
      [] s \in {"2018/d01", "2018/d14"} -> "raise"
      [] OTHER -> "exit"

\* the parts main() tests and solves
NumParts(s) == IF s = "2025/d12" THEN 1 ELSE 2

\* ac.validate(test, answer): TRUE when it returns, FALSE when it raises
\* AssertionError
validate(test, answer) == test = answer

Event(ev) == [ev |-> ev, part |-> part, sample |-> sample]

MainInit ==
    /\ script \in Scripts
    /\ input_ok \in BOOLEAN
    /\ num_samples \in 1..MaxSamples
    /\ pc = "main"
    /\ part = 1
    /\ sample = 1
    /\ main_ret = "None"
    /\ exit_code = 0
    /\ log = <<>>
    /\ MainRestIdle

\* main(): the try block that fetches and reads the input file
ReadInput ==
    /\ pc = "main"
    /\ IF input_ok
       THEN /\ pc' = "test"
            /\ UNCHANGED <<log, main_ret>>
       ELSE /\ log' = Append(log, Event("read_error"))
            /\ main_ret' = "1"
            /\ pc' = "returned"
    /\ UNCHANGED <<script, input_ok, num_samples, part, sample, exit_code>>
    /\ UNCHANGED mainRest

\* test_solution(): one iteration of the loop over the samples; the solution
\* function's answer for the sample and the expected answer are any values
TestSample ==
    /\ pc = "test"
    /\ sample <= num_samples
    /\ \E test \in 0..MaxAnswer, answer \in 0..MaxAnswer :
          IF validate(test, answer)
          THEN /\ log' = Append(log, Event("validated"))
               /\ sample' = sample + 1
               /\ UNCHANGED <<pc, exit_code>>
          ELSE CASE OnFail(script) = "exit" ->
                      /\ log' = log \o <<Event("failed"), Event("test_failed")>>
                      /\ exit_code' = 1
                      /\ pc' = "exited"
                      /\ UNCHANGED sample
                 [] OnFail(script) = "raise" ->
                      /\ log' = log \o <<Event("failed"), Event("traceback")>>
                      /\ exit_code' = 1
                      /\ pc' = "exited"
                      /\ UNCHANGED sample
                 [] OnFail(script) = "ignore" ->
                      /\ log' = log \o <<Event("failed"), Event("test_failed")>>
                      /\ sample' = sample + 1
                      /\ UNCHANGED <<pc, exit_code>>
    /\ UNCHANGED <<script, input_ok, num_samples, part, main_ret>>
    /\ UNCHANGED mainRest

\* test_solution(): the loop is over, "tests passed" is logged
TestsPassed ==
    /\ pc = "test"
    /\ sample > num_samples
    /\ log' = Append(log, Event("tests_passed"))
    /\ pc' = "solve"
    /\ UNCHANGED <<script, input_ok, num_samples, part, sample, main_ret, exit_code>>
    /\ UNCHANGED mainRest

\* main(): the part's solution on the real input is computed and logged; main
\* goes on to the next part, or returns
Solve ==
    /\ pc = "solve"
    /\ log' = Append(log, Event("solution"))
    /\ IF part < NumParts(script)
       THEN /\ part' = part + 1
            /\ sample' = 1
            /\ pc' = "test"
       ELSE /\ pc' = "returned"
            /\ UNCHANGED <<part, sample>>
    /\ UNCHANGED <<script, input_ok, num_samples, main_ret, exit_code>>
    /\ UNCHANGED mainRest

\* `if __name__ == "__main__": main()`: what main() returned is dropped and the
\* interpreter ends with status 0
ModuleEnd ==
    /\ pc = "returned"
    /\ pc' = "exited"
    /\ exit_code' = 0
    /\ UNCHANGED <<script, input_ok, num_samples, part, sample, main_ret, log>>
    /\ UNCHANGED mainRest

MainNext == ReadInput \/ TestSample \/ TestsPassed \/ Solve \/ ModuleEnd

SpecMain == MainInit /\ [][MainNext]_vars

\* the positions in the log of an event of a part
Logged(ev, p) == { i \in 1..Len(log) : log[i].ev = ev /\ log[i].part = p }

-----------------------------------------------------------------------------
(* Claims on a script run *)

\* C4: a part's solution is computed on the real input only after test_solution
\* has run for that part and every sample matched: no run computes the real
\* answer of a part one of whose samples failed.
C4_SolutionOnlyAfterSamplesMatched ==
    \A i \in 1..Len(log) :
        log[i].ev = "solution" =>
            /\ \E j \in Logged("tests_passed", log[i].part) : j < i
            /\ \A j \in Logged("failed", log[i].part) : j > i

\* C5: when the input file is missing or invalid the script logs the error, runs
\* no sample test and no solution, and the process exits with code 1.
C5_MissingInputExitsWithOne ==
    (pc = "exited" /\ ~input_ok) =>
        /\ Len(log) = 1
        /\ log[1].ev = "read_error"
        /\ exit_code = 1

\* C6: when a sample fails in test_solution the failure is reported (logged by
\* test_solution, or shown by the interpreter when the AssertionError is not
\* caught) and the process exits with code 1 before any later sample, later part
\* or real-input solution is run.
C6_FailedSampleExitsWithOne ==
    \A i \in 1..Len(log) :
        log[i].ev = "failed" =>
            /\ Len(log) = i + 1
            /\ log[i + 1].ev \in {"test_failed", "traceback"}
            /\ pc = "exited"
            /\ exit_code = 1

\* C7: test_solution logs "tests passed" only when every sample it was given
\* validated; after a failed sample the message is never logged for that call.
C7_TestsPassedOnlyWhenAllValidated ==
    \A p \in 1..2 :
        Logged("tests_passed", p) # {} =>
            /\ Logged("failed", p) = {}
            /\ Cardinality(Logged("validated", p)) = num_samples

-----------------------------------------------------------------------------
(* AoC 2025 d08: CircuitNetwork.  A Box is a NamedTuple the class only     *)
(* compares and hashes; the model takes the boxes from 1..MaxBoxes.        *)

Range(seq) == { seq[i] : i \in 1..Len(seq) }

\* CircuitNetwork.__init__(boxes)
CircuitNetwork(boxes) ==
    [circuit_leader |-> [box \in Range(boxes) |-> box],
     circuit_count  |-> Len(boxes)]

\* find that returns the leader of the box without going up to the root
find_parent(leader, box) ==
    [circuit_leader |-> leader, ret |-> leader[box]]

\* CircuitNetwork.find(box) on the leader map: the map with the path compressed,
\* and the leader returned
RECURSIVE find(_, _)
find(leader, box) ==
    IF leader[box] # box
    THEN LET up == find(leader, leader[box])
         IN  [circuit_leader |-> [up.circuit_leader EXCEPT ![box] = up.ret],
              ret            |-> up.ret]
    ELSE [circuit_leader |-> leader, ret |-> leader[box]]

\* union that hangs box1, not its leader, under the leader of box2
union_box(leader, count, box1, box2) ==
    LET f1      == find(leader, box1)
        f2      == find(f1.circuit_leader, box2)
        leader1 == f1.ret
        leader2 == f2.ret
    IN  IF leader1 # leader2
        THEN [circuit_leader |-> [f2.circuit_leader EXCEPT ![box1] = leader2],
              circuit_count  |-> count - 1,
              ret            |-> TRUE]
        ELSE [circuit_leader |-> f2.circuit_leader,
              circuit_count  |-> count,
              ret            |-> FALSE]

\* CircuitNetwork.union(box1, box2) on the leader map and the count
union(leader, count, box1, box2) ==
    LET f1      == find(leader, box1)
        f2      == find(f1.circuit_leader, box2)
        leader1 == f1.ret
        leader2 == f2.ret
    IN  IF leader1 # leader2
        THEN [circuit_leader |-> [f2.circuit_leader EXCEPT ![leader1] = leader2],
              circuit_count  |-> count - 1,
              ret            |-> TRUE]
        ELSE [circuit_leader |-> f2.circuit_leader,
              circuit_count  |-> count,
              ret            |-> FALSE]

CircuitInit ==
    /\ \E n \in 1..MaxBoxes : \E boxes \in [1..n -> 1..MaxBoxes] :
          /\ circuit_leader = CircuitNetwork(boxes).circuit_leader
          /\ circuit_count = CircuitNetwork(boxes).circuit_count
    /\ call = [op |-> "init", box1 |-> 0, box2 |-> 0, ret |-> 0]
    /\ before = [circuit_leader |-> circuit_leader, circuit_count |-> circuit_count]
    /\ CircuitRestIdle

\* a call of find(box)
Find ==
    \E box \in DOMAIN circuit_leader :
        LET f == find(circuit_leader, box)
        IN  /\ circuit_leader' = f.circuit_leader
            /\ call' = [op |-> "find", box1 |-> box, box2 |-> box, ret |-> f.ret]
            /\ before' = [circuit_leader |-> circuit_leader,
                          circuit_count  |-> circuit_count]
            /\ UNCHANGED circuit_count
            /\ UNCHANGED circuitRest

\* a call of union(box1, box2)
Union ==
    \E box1 \in DOMAIN circuit_leader, box2 \in DOMAIN circuit_leader :
        LET u == union(circuit_leader, circuit_count, box1, box2)
        IN  /\ circuit_leader' = u.circuit_leader
            /\ circuit_count' = u.circuit_count
            /\ call' = [op |-> "union", box1 |-> box1, box2 |-> box2, ret |-> u.ret]
            /\ before' = [circuit_leader |-> circuit_leader,
                          circuit_count  |-> circuit_count]
            /\ UNCHANGED circuitRest

CircuitNext == Find \/ Union

SpecCircuit == CircuitInit /\ [][CircuitNext]_vars

\* the box reached from `box` by k steps along the leader map
RECURSIVE Walk(_, _, _)
Walk(leader, box, k) == IF k = 0 THEN box ELSE Walk(leader, leader[box], k - 1)

\* where the leader map leads from a box, when it has no cycle but self-loops
Root(leader, box) == Walk(leader, box, Cardinality(DOMAIN leader))

\* the boxes that are their own leader
Leaders(leader) == { box \in DOMAIN leader : leader[box] = box }

\* no cycle but the self-loops of the roots: every walk ends on a self-loop
Acyclic(leader) == \A box \in DOMAIN leader : Root(leader, box) \in Leaders(leader)

\* the circuit of a box, and the partition of the boxes into circuits
Circuit(leader, box) ==
    { other \in DOMAIN leader : Root(leader, other) = Root(leader, box) }

Circuits(leader) == { Circuit(leader, box) : box \in DOMAIN leader }

-----------------------------------------------------------------------------
(* Claims on CircuitNetwork *)

\* C8: for a network built from any list of boxes, and after any union and find
\* calls, circuit_count is the number of circuits, that is the number of boxes
\* that are their own leader.
C8_CountIsNumberOfCircuits ==
    /\ circuit_count = Cardinality(Leaders(circuit_leader))
    /\ circuit_count = Cardinality(Circuits(circuit_leader))

\* C9: union(box1, box2) returns True exactly when the boxes were in different
\* circuits; then find(box1) = find(box2) afterwards, the two circuits are one,
\* every other circuit is untouched and circuit_count is one less.  It returns
\* False exactly when they shared a circuit; then the partition and
\* circuit_count are unchanged.
C9_UnionMergesExactlyTwoCircuits ==
    call.op = "union" =>
        LET c1 == Circuit(before.circuit_leader, call.box1)
            c2 == Circuit(before.circuit_leader, call.box2)
            f1 == find(circuit_leader, call.box1)
            f2 == find(f1.circuit_leader, call.box2)
        IN  /\ call.ret \in BOOLEAN
            /\ call.ret <=> (c1 # c2)
            /\ call.ret =>
                  /\ f1.ret = f2.ret
                  /\ Circuits(circuit_leader) =
                        (Circuits(before.circuit_leader) \ {c1, c2}) \cup {c1 \cup c2}
                  /\ circuit_count = before.circuit_count - 1
            /\ ~call.ret =>
                  /\ Circuits(circuit_leader) = Circuits(before.circuit_leader)
                  /\ circuit_count = before.circuit_count

\* a union that merged a circuit of two boxes or more into another, with a third
\* circuit standing by
C9_Witness ==
    /\ call.op = "union"
    /\ call.ret = TRUE
    /\ Cardinality(Circuit(before.circuit_leader, call.box1)) >= 2
    /\ Cardinality(Circuits(circuit_leader)) >= 2

\* C10: in every reachable state the leader map has no cycle but the self-loops
\* of the roots, so find terminates; find(box) returns the root leader the box's
\* circuit had before the call, and its path compression changes neither which
\* boxes share a circuit nor circuit_count.
C10_FindReturnsRootAndKeepsCircuits ==
    /\ Acyclic(circuit_leader)
    /\ call.op = "find" =>
          /\ call.ret = Root(before.circuit_leader, call.box1)
          /\ Leaders(circuit_leader) = Leaders(before.circuit_leader)
          /\ Circuits(circuit_leader) = Circuits(before.circuit_leader)
          /\ circuit_count = before.circuit_count

\* a find whose path compression moved a box up
C10_Witness ==
    /\ call.op = "find"
    /\ circuit_leader # before.circuit_leader
    /\ circuit_leader[call.box1] = call.ret

-----------------------------------------------------------------------------
(* part2 of AoC 2025 d08: connect the closest pairs until one circuit is left *)

MaxJunctions == 3
MaxCoord == 2

\* Box(x, y, z)
Box(x, y, z) == [x |-> x, y |-> y, z |-> z]

BoxInputs == { Box(x, y, 0) : x \in 0..MaxCoord, y \in 0..1 }

\* get_distance(box1, box2) as a sort key: the code takes the square root of
\* this sum, and the root is strictly increasing on the sums in range, so the
\* order of the roots is the order of the sums
get_distance(box1, box2) ==
    (box1.x - box2.x) * (box1.x - box2.x)
      + (box1.y - box2.y) * (box1.y - box2.y)
      + (box1.z - box2.z) * (box1.z - box2.z)

\* list(combinations(boxes, 2)): the pairs by position, in lexicographic order
RECURSIVE combinations(_)
combinations(seq) ==
    IF Len(seq) <= 1
    THEN <<>>
    ELSE [k \in 1..(Len(seq) - 1) |-> <<seq[1], seq[k + 1]>>] \o combinations(Tail(seq))

\* one pair put into a sorted list, behind the pairs that are not farther
insort(sorted, pair) ==
    LET k == Cardinality({ i \in 1..Len(sorted) :
                 get_distance(sorted[i][1], sorted[i][2]) <= get_distance(pair[1], pair[2]) })
    IN  SubSeq(sorted, 1, k) \o <<pair>> \o SubSeq(sorted, k + 1, Len(sorted))

\* connections.sort(key=get_distance): stable, ascending
RECURSIVE sort_connections(_)
sort_connections(connections) ==
    IF connections = <<>>
    THEN <<>>
    ELSE insort(sort_connections(SubSeq(connections, 1, Len(connections) - 1)),
                connections[Len(connections)])

\* the sorted list part2 walks through
Connections == sort_connections(combinations(junction_boxes))

JunctionInit ==
    /\ \E n \in 2..MaxJunctions : junction_boxes \in [1..n -> BoxInputs]
    /\ uf = CircuitNetwork(junction_boxes)
    /\ conn = 0
    /\ p2ret = [returned |-> FALSE, none |-> FALSE, value |-> 0]
    /\ JunctionRestIdle

\* one turn of the loop of part2: union, and the return when one circuit is left
Connect ==
    /\ ~p2ret.returned
    /\ conn < Len(Connections)
    /\ LET box1 == Connections[conn + 1][1]
           box2 == Connections[conn + 1][2]
           u    == union(uf.circuit_leader, uf.circuit_count, box1, box2)
       IN  /\ uf' = [circuit_leader |-> u.circuit_leader,
                     circuit_count  |-> u.circuit_count]
           /\ conn' = conn + 1
           /\ p2ret' = IF u.ret /\ u.circuit_count = 1
                       THEN [returned |-> TRUE, none |-> FALSE, value |-> box1.x * box2.x]
                       ELSE p2ret
    /\ UNCHANGED <<junction_boxes, junctionRest>>

\* the loop ran out of connections: return None
ReturnNone ==
    /\ ~p2ret.returned
    /\ conn = Len(Connections)
    /\ p2ret' = [returned |-> TRUE, none |-> TRUE, value |-> 0]
    /\ UNCHANGED <<junction_boxes, uf, conn, junctionRest>>

JunctionNext == Connect \/ ReturnNone

SpecJunction == JunctionInit /\ [][JunctionNext]_vars

\* the boxes of the input, by their place in the list
Places == 1..Len(junction_boxes)

PlacePairs == { p \in Places \X Places : p[1] < p[2] }

Apart(p) == get_distance(junction_boxes[p[1]], junction_boxes[p[2]])

\* pair p comes before pair q: nearer, or as near and earlier in the list of pairs
Before(p, q) ==
    \/ Apart(p) < Apart(q)
    \/ Apart(p) = Apart(q) /\ (p[1] < q[1] \/ (p[1] = q[1] /\ p[2] < q[2]))

\* the k-th pair of places in ascending distance
Pair(k) == CHOOSE p \in PlacePairs : Cardinality({ q \in PlacePairs : Before(q, p) }) = k - 1

\* the places joined to the places of `set` by one of the first k pairs
Joined(set, k) ==
    set \cup { b \in Places : \E i \in 1..k, a \in set : {a, b} = {Pair(i)[1], Pair(i)[2]} }

\* the circuit of a set of places after the first k pairs
RECURSIVE CircuitAfter(_, _)
CircuitAfter(set, k) ==
    IF Joined(set, k) = set THEN set ELSE CircuitAfter(Joined(set, k), k)

\* the number of circuits after the first k pairs
CircuitsAfter(k) == Cardinality({ CircuitAfter({a}, k) : a \in Places })

\* C11: for an input of two or more boxes part2 returns, never None, the
\* product of the x coordinates of the pair that first leaves one circuit, and
\* every pair before it leaves two circuits or more
C11_Part2ReturnsFirstClosingPair ==
    /\ p2ret.returned =>
          /\ ~p2ret.none
          /\ CircuitsAfter(conn) = 1
          /\ p2ret.value = junction_boxes[Pair(conn)[1]].x * junction_boxes[Pair(conn)[2]].x
    /\ \A k \in 0..(conn - 1) : CircuitsAfter(k) >= 2

\* part2 returned None
C11_ReturnedNone == p2ret.returned /\ p2ret.none

\* no box is listed twice
DistinctBoxes == Cardinality(Range(junction_boxes)) = Len(junction_boxes)

\* part2 kept to the claim on every list without a box listed twice
C11_HoldsForDistinctBoxes == DistinctBoxes => C11_Part2ReturnsFirstClosingPair

-----------------------------------------------------------------------------
(* merge_intervals of AoC 2025 d05 and SensorGrid._merge_intervals of AoC 2022 d15 *)

MaxIntervals == 3
MaxId == 3
MaxReach == 1

max(a, b) == IF a >= b THEN a ELSE b

\* the order of two lists [start, end] in list.sort(): by start, then by end
interval_le(a, b) == a[1] < b[1] \/ (a[1] = b[1] /\ a[2] <= b[2])

\* one interval put into a sorted list, behind the intervals that are not larger
interval_insort(sorted, interval) ==
    LET k == Cardinality({ i \in 1..Len(sorted) : interval_le(sorted[i], interval) })
    IN  SubSeq(sorted, 1, k) \o <<interval>> \o SubSeq(sorted, k + 1, Len(sorted))

\* intervals.sort()
RECURSIVE sort_intervals(_)
sort_intervals(intervals) ==
    IF intervals = <<>>
    THEN <<>>
    ELSE interval_insort(sort_intervals(SubSeq(intervals, 1, Len(intervals) - 1)),
                         intervals[Len(intervals)])

\* the loop that overwrites the end of the top interval and never takes the maximum
RECURSIVE merge_loop_last(_, _, _)
merge_loop_last(intervals, stack, i) ==
    IF i > Len(intervals)
    THEN [raised |-> FALSE, intervals |-> intervals,
          stack |-> [k \in 1..Len(stack) |-> intervals[stack[k]]]]
    ELSE LET top      == stack[Len(stack)]
             interval == intervals[i]
         IN  IF intervals[top][1] <= interval[1] /\ interval[1] <= intervals[top][2]
             THEN merge_loop_last([intervals EXCEPT ![top][2] = interval[2]], stack, i + 1)
             ELSE merge_loop_last(intervals, Append(stack, i), i + 1)

\* the loop of merge_intervals over intervals[1:], from the i-th interval on.
\* The stack holds the very lists of `intervals` (here: their places in it), so
\* that writing stack[-1][-1] writes into `intervals` too.
RECURSIVE merge_loop(_, _, _)
merge_loop(intervals, stack, i) ==
    IF i > Len(intervals)
    THEN [raised |-> FALSE, intervals |-> intervals,
          stack |-> [k \in 1..Len(stack) |-> intervals[stack[k]]]]
    ELSE LET top      == stack[Len(stack)]
             interval == intervals[i]
         IN  IF intervals[top][1] <= interval[1] /\ interval[1] <= intervals[top][2]
             THEN merge_loop([intervals EXCEPT ![top][2] = max(intervals[top][2], interval[2])],
                             stack, i + 1)
             ELSE merge_loop(intervals, Append(stack, i), i + 1)

\* merge_intervals(intervals): intervals[0] of an empty list raises IndexError
merge_intervals(intervals) ==
    IF intervals = <<>>
    THEN [raised |-> TRUE, intervals |-> <<>>, stack |-> <<>>]
    ELSE merge_loop(sort_intervals(intervals), <<1>>, 2)

\* SensorGrid._get_row_coverage_intervals(row) for sensors [x, reach], where
\* reach is the range of the sensor less its vertical distance to the row:
\* the sensors with reach >= 0 are the close ones
get_row_coverage_intervals(sensors) ==
    LET close_sensors == SelectSeq(sensors, LAMBDA s : s.reach >= 0)
    IN  [k \in 1..Len(close_sensors) |->
            <<close_sensors[k].x - close_sensors[k].reach,
              close_sensors[k].x + close_sensors[k].reach>>]

\* sum(end - start + 1 for start, end in merged_ranges)
RECURSIVE sum_sizes(_)
sum_sizes(merged_ranges) ==
    IF merged_ranges = <<>>
    THEN 0
    ELSE merged_ranges[1][2] - merged_ranges[1][1] + 1 + sum_sizes(Tail(merged_ranges))

\* the lists of ranges of d05: [start, end] with start <= end
RangeInputs == { r \in (0..MaxId) \X (0..MaxId) : r[1] <= r[2] }

\* the sensors of d15 as seen from one row
SensorInputs == [x : 0..MaxId, reach : -1..MaxReach]

NotMerged == [done |-> FALSE, raised |-> FALSE, stack |-> <<>>]

NotCounted == [done |-> FALSE, raised |-> FALSE, value |-> 0]

IntervalInit ==
    /\ \/ /\ iv_fn = "d05"
          /\ \E n \in 0..MaxIntervals : iv_given \in [1..n -> RangeInputs]
       \/ /\ iv_fn = "d15"
          /\ \E n \in 0..MaxIntervals : \E sensors \in [1..n -> SensorInputs] :
                iv_given = get_row_coverage_intervals(sensors)
    /\ iv_intervals = iv_given
    /\ iv_merged = NotMerged
    /\ iv_total = NotCounted
    /\ IntervalRestIdle

\* a call of merge_intervals(intervals) / self._merge_intervals(row)
MergeIntervals ==
    /\ ~iv_merged.done
    /\ LET m == merge_intervals(iv_given)
       IN  /\ iv_intervals' = m.intervals
           /\ iv_merged' = [done |-> TRUE, raised |-> m.raised, stack |-> m.stack]
    /\ UNCHANGED <<iv_fn, iv_given, iv_total, intervalRest>>

\* a call of part2 (d05) / coverage_for_row (d15): merge, then add up the sizes
CountCovered ==
    /\ ~iv_merged.done
    /\ LET m == merge_intervals(iv_given)
       IN  /\ iv_intervals' = m.intervals
           /\ iv_merged' = [done |-> TRUE, raised |-> m.raised, stack |-> m.stack]
           /\ iv_total' = [done |-> TRUE, raised |-> m.raised,
                           value |-> IF m.raised THEN 0 ELSE sum_sizes(m.stack)]
    /\ UNCHANGED <<iv_fn, iv_given, intervalRest>>

IntervalNext == MergeIntervals \/ CountCovered

SpecInterval == IntervalInit /\ [][IntervalNext]_vars

\* the integers of one inclusive interval
Ints(interval) == interval[1]..interval[2]

\* the integers covered by a list of intervals
Covered(intervals) == UNION { Ints(intervals[k]) : k \in 1..Len(intervals) }

\* the ranges handed over are well-formed: start <= end
WellFormed == \A k \in 1..Len(iv_given) : iv_given[k][1] <= iv_given[k][2]

\* C12: for a non-empty list of ranges [start, end] with start <= end, in any
\* order, part2 of d05 returns the number of distinct integers that lie in at
\* least one range
C12_Part2CountsCoveredIntegers ==
    (iv_fn = "d05" /\ iv_total.done /\ iv_given # <<>> /\ WellFormed) =>
        /\ ~iv_total.raised
        /\ iv_total.value = Cardinality(Covered(iv_given))

\* part2 of d05 counted a list with a nested range, with two ranges that
\* overlap in part, with a range given twice, or with two ranges that touch,
\* given out of order
C12_Witness ==
    /\ iv_fn = "d05" /\ iv_total.done /\ ~iv_total.raised
    /\ Len(iv_given) = 3
    /\ iv_given # iv_intervals
    /\ \E i, j \in 1..3 : i # j /\ iv_given[i][1] < iv_given[j][1]
                                /\ iv_given[j][2] < iv_given[i][2]
    /\ \E i, j \in 1..3 : i # j /\ iv_given[i][2] + 1 = iv_given[j][1]
    /\ iv_total.value < sum_sizes(iv_given)


\* the least number of inclusive intervals that cover exactly the integers of
\* the set: one for every integer of the set whose predecessor is not in it
FewestIntervals(set) == Cardinality({ n \in set : (n - 1) \notin set })

\* C13: merge_intervals (d05) and SensorGrid._merge_intervals (d15) turn any
\* list of inclusive integer intervals into a list that is sorted by start,
\* whose intervals are pairwise disjoint, that covers exactly the integers the
\* input covers, and that has the fewest intervals of all such lists
C13_MergeGivesFewestDisjointIntervals ==
    (iv_merged.done /\ WellFormed) =>
        /\ ~iv_merged.raised
        /\ \A k \in 1..(Len(iv_merged.stack) - 1) :
              iv_merged.stack[k][1] < iv_merged.stack[k + 1][1]
        /\ \A j, k \in 1..Len(iv_merged.stack) :
              j # k => Ints(iv_merged.stack[j]) \cap Ints(iv_merged.stack[k]) = {}
        /\ Covered(iv_merged.stack) = Covered(iv_given)
        /\ Len(iv_merged.stack) = FewestIntervals(Covered(iv_given))

\* the merge was handed an empty list
C13_EmptyList == iv_merged.done /\ iv_given = <<>>

\* the merge was handed two intervals of which one ends right before the other
\* starts
Touching ==
    \E j, k \in 1..Len(iv_given) : iv_given[j][2] + 1 = iv_given[k][1]

\* the merge keeps to C13 but for the number of intervals, on every list that
\* is not empty
C13_HoldsButForFewest ==
    (iv_merged.done /\ iv_given # <<>>) =>
        /\ ~iv_merged.raised
        /\ \A k \in 1..(Len(iv_merged.stack) - 1) :
              iv_merged.stack[k][1] < iv_merged.stack[k + 1][1]
        /\ \A j, k \in 1..Len(iv_merged.stack) :
              j # k => Ints(iv_merged.stack[j]) \cap Ints(iv_merged.stack[k]) = {}
        /\ Covered(iv_merged.stack) = Covered(iv_given)
        /\ (~Touching => Len(iv_merged.stack) = FewestIntervals(Covered(iv_given)))

-----------------------------------------------------------------------------
(* part1 and part2 of AoC 2025 d07: beams and timelines in the tachyon manifold *)

MaxWidth == 3
MaxHeight == 3

Point(x, y) == [x |-> x, y |-> y]

\* TachyonGrid.width, TachyonGrid.height
width(array) == Len(array[1])

height(array) == Len(array)

\* TachyonGrid.value_at_point(point)
value_at_point(array, point) == array[point.y + 1][point.x + 1]

\* TachyonGrid.valid_location(point)
valid_location(array, point) ==
    0 <= point.x /\ point.x < width(array) /\ 0 <= point.y /\ point.y < height(array)

\* TachyonGrid.all_points()
all_points(array) == { Point(x, y) : x \in 0..(width(array) - 1), y \in 0..(height(array) - 1) }

\* TachyonGrid.start(): the first 'S' in the order of all_points, column by column
start_point(array) ==
    LET found == { p \in all_points(array) : value_at_point(array, p) = "S" }
    IN  CHOOSE p \in found :
            \A q \in found : p.x < q.x \/ (p.x = q.x /\ p.y <= q.y)

\* the points of a list that are in the grid and not explored, each taken once
RECURSIVE unexplored(_, _, _)
unexplored(array, explored, adjacents) ==
    IF adjacents = <<>>
    THEN <<>>
    ELSE LET adjacent == Head(adjacents)
         IN  IF valid_location(array, adjacent) /\ adjacent \notin explored
             THEN <<adjacent>> \o unexplored(array, explored \cup {adjacent}, Tail(adjacents))
             ELSE unexplored(array, explored, Tail(adjacents))

\* one turn of the loop that sends a beam from a splitter to the right only
bfs_step_right(array, queue, explored, splits) ==
    LET current == Head(queue)
        split   == value_at_point(array, current) = "^"
        new     == IF split
                   THEN unexplored(array, explored, <<Point(current.x + 1, current.y)>>)
                   ELSE unexplored(array, explored, <<Point(current.x, current.y + 1)>>)
    IN  [queue    |-> Tail(queue) \o new,
         explored |-> explored \cup Range(new),
         splits   |-> IF split THEN splits + 1 ELSE splits,
         new      |-> new]

\* one turn of `while queue` in part1: popleft, then split or move down
bfs_step(array, queue, explored, splits) ==
    LET current == Head(queue)
        split   == value_at_point(array, current) = "^"
        new     == IF split
                   THEN unexplored(array, explored, <<Point(current.x - 1, current.y),
                                                      Point(current.x + 1, current.y)>>)
                   ELSE unexplored(array, explored, <<Point(current.x, current.y + 1)>>)
    IN  [queue    |-> Tail(queue) \o new,
         explored |-> explored \cup Range(new),
         splits   |-> IF split THEN splits + 1 ELSE splits,
         new      |-> new]

\* count_timelines that counts the left branch of a splitter twice
RECURSIVE count_timelines_leftward(_, _, _)
count_timelines_leftward(array, cache, point) ==
    IF point \in DOMAIN cache
    THEN [cache |-> cache, ret |-> cache[point]]
    ELSE IF ~valid_location(array, point)
    THEN [cache |-> cache @@ (point :> 1), ret |-> 1]
    ELSE IF value_at_point(array, point) = "^"
    THEN LET left  == count_timelines_leftward(array, cache, Point(point.x - 1, point.y + 1))
             ret   == left.ret + left.ret
         IN  [cache |-> left.cache @@ (point :> ret), ret |-> ret]
    ELSE LET down == count_timelines_leftward(array, cache, Point(point.x, point.y + 1))
         IN  [cache |-> down.cache @@ (point :> down.ret), ret |-> down.ret]

\* count_timelines(point) under @cache: the cache after the call and the return
RECURSIVE count_timelines(_, _, _)
count_timelines(array, cache, point) ==
    IF point \in DOMAIN cache
    THEN [cache |-> cache, ret |-> cache[point]]
    ELSE IF ~valid_location(array, point)
    THEN [cache |-> cache @@ (point :> 1), ret |-> 1]
    ELSE IF value_at_point(array, point) = "^"
    THEN LET left  == count_timelines(array, cache, Point(point.x - 1, point.y + 1))
             right == count_timelines(array, left.cache, Point(point.x + 1, point.y + 1))
             ret   == left.ret + right.ret
         IN  [cache |-> right.cache @@ (point :> ret), ret |-> ret]
    ELSE LET down == count_timelines(array, cache, Point(point.x, point.y + 1))
         IN  [cache |-> down.cache @@ (point :> down.ret), ret |-> down.ret]

\* the grids: 'S' somewhere in the top row, '.' and '^' below it
GridInputs(w, h) ==
    { <<[k \in 1..w |-> IF k = x THEN "S" ELSE "."]>> \o below :
        x \in 1..w, below \in [1..(h - 1) -> [1..w -> {".", "^"}]] }

BeamInit ==
    /\ tm_fn \in {"part1", "part2"}
    /\ \E w \in 1..MaxWidth, h \in 1..MaxHeight : tm_array \in GridInputs(w, h)
    /\ tm_queue = IF tm_fn = "part1" THEN <<start_point(tm_array)>> ELSE <<>>
    /\ tm_explored = IF tm_fn = "part1" THEN {start_point(tm_array)} ELSE {}
    /\ tm_splits = 0
    /\ tm_enqueued = tm_queue
    /\ tm_cache = <<>>
    /\ tm_ret = [done |-> FALSE, value |-> 0]
    /\ BeamRestIdle

\* part1: one turn of `while queue`
Step ==
    /\ tm_fn = "part1" /\ ~tm_ret.done
    /\ tm_queue # <<>>
    /\ LET s == bfs_step(tm_array, tm_queue, tm_explored, tm_splits)
       IN  /\ tm_queue' = s.queue
           /\ tm_explored' = s.explored
           /\ tm_splits' = s.splits
           /\ tm_enqueued' = tm_enqueued \o s.new
    /\ UNCHANGED <<tm_fn, tm_array, tm_cache, tm_ret, beamRest>>

\* part1: the queue is empty, return splits
ReturnSplits ==
    /\ tm_fn = "part1" /\ ~tm_ret.done
    /\ tm_queue = <<>>
    /\ tm_ret' = [done |-> TRUE, value |-> tm_splits]
    /\ UNCHANGED <<tm_fn, tm_array, tm_queue, tm_explored, tm_splits, tm_enqueued,
                   tm_cache, beamRest>>

\* part2: return count_timelines(start)
Timelines ==
    /\ tm_fn = "part2" /\ ~tm_ret.done
    /\ LET c == count_timelines(tm_array, <<>>, start_point(tm_array))
       IN  /\ tm_cache' = c.cache
           /\ tm_ret' = [done |-> TRUE, value |-> c.ret]
    /\ UNCHANGED <<tm_fn, tm_array, tm_queue, tm_explored, tm_splits, tm_enqueued, beamRest>>

BeamNext == Step \/ ReturnSplits \/ Timelines

SpecBeam == BeamInit /\ [][BeamNext]_vars

\* where a beam at the point goes: to both sides of a splitter, else one row down
BeamsFrom(point) ==
    { q \in IF value_at_point(tm_array, point) = "^"
            THEN {Point(point.x - 1, point.y), Point(point.x + 1, point.y)}
            ELSE {Point(point.x, point.y + 1)} : valid_location(tm_array, q) }

\* the cells that beams reach from the cells of the set
RECURSIVE BeamCells(_)
BeamCells(set) ==
    LET more == set \cup UNION { BeamsFrom(p) : p \in set }
    IN  IF more = set THEN set ELSE BeamCells(more)

\* the splitters that at least one beam reaches
SplittersReached ==
    { p \in BeamCells({start_point(tm_array)}) : value_at_point(tm_array, p) = "^" }

\* the turns of `while queue` taken so far: every turn pops one point
Turns == Len(tm_enqueued) - Len(tm_queue)

\* C14: part1 returns the number of splitters that at least one beam reaches,
\* each counted once however many beams reach it; the search puts every cell on
\* the queue at most once, and so comes to its end after at most one turn of
\* the loop for every cell of the grid
C14_Part1CountsSplittersAndTerminates ==
    tm_fn = "part1" =>
        /\ tm_ret.done => tm_ret.value = Cardinality(SplittersReached)
        /\ \A i, j \in 1..Len(tm_enqueued) : i # j => tm_enqueued[i] # tm_enqueued[j]
        /\ Range(tm_enqueued) \subseteq all_points(tm_array)
        /\ Turns <= Cardinality(all_points(tm_array))
        /\ tm_ret.done => Turns = Len(tm_enqueued)

\* part1 returned from a grid in which two beams reach the same splitter, and
\* two beams the same empty cell
C14_Witness ==
    /\ tm_fn = "part1" /\ tm_ret.done
    /\ \E p \in BeamCells({start_point(tm_array)}) :
          /\ value_at_point(tm_array, p) = "^"
          /\ Cardinality({ q \in BeamCells({start_point(tm_array)}) : p \in BeamsFrom(q) }) >= 2
    /\ \E p \in BeamCells({start_point(tm_array)}) :
          /\ value_at_point(tm_array, p) = "."
          /\ Cardinality({ q \in BeamCells({start_point(tm_array)}) : p \in BeamsFrom(q) }) >= 2
    /\ tm_ret.value >= 3


\* where a particle at the point goes in one step: one row down, and to the
\* left or to the right of a splitter
ParticleSteps(point) ==
    IF value_at_point(tm_array, point) = "^"
    THEN {Point(point.x - 1, point.y + 1), Point(point.x + 1, point.y + 1)}
    ELSE {Point(point.x, point.y + 1)}

\* every path of a particle from the point to its first point outside the grid
RECURSIVE ParticlePaths(_)
ParticlePaths(point) ==
    IF ~valid_location(tm_array, point)
    THEN {<<point>>}
    ELSE UNION { { <<point>> \o path : path \in ParticlePaths(next) } :
                    next \in ParticleSteps(point) }

\* C15: part2 returns the number of distinct paths of one particle from S down
\* through the grid, one row a step, left or right at every splitter; the
\* recursion with its cache returns what the enumeration of every path gives,
\* and so does every entry of the cache
C15_Part2CountsPaths ==
    (tm_fn = "part2" /\ tm_ret.done) =>
        /\ tm_ret.value = Cardinality(ParticlePaths(start_point(tm_array)))
        /\ \A point \in DOMAIN tm_cache :
              tm_cache[point] = Cardinality(ParticlePaths(point))

\* part2 returned from a grid where two paths meet again below two splitters,
\* so that the second one is answered from the cache
C15_Witness ==
    /\ tm_fn = "part2" /\ tm_ret.done
    /\ \E point \in DOMAIN tm_cache :
          Cardinality({ q \in DOMAIN tm_cache :
              valid_location(tm_array, q) /\ point \in ParticleSteps(q) }) >= 2
    /\ tm_ret.value >= 4

-----------------------------------------------------------------------------
(* part2 of AoC 2025 d04: remove the rolls of paper a forklift can get at *)

MaxSide == 4

\* Point.yield_neighbors()
yield_neighbors(point) ==
    LET ds == <<-1, 0, 1>>
        all == [k \in 1..9 |-> Point(point.x + ds[((k - 1) \div 3) + 1],
                                     point.y + ds[((k - 1) % 3) + 1])]
    IN  SelectSeq(all, LAMBDA p : p # point)

\* ForkliftGrid.all_points(), in its order; value_at_point and valid_location
\* of ForkliftGrid are those of TachyonGrid
all_points_list(array) ==
    [k \in 1..(width(array) * height(array)) |->
        Point((k - 1) \div height(array), (k - 1) % height(array))]

\* get_accessible_locations that takes a roll with four neighbours too
get_accessible_locations_four(array) ==
    LET roll_count(point) ==
            LET neighbors == yield_neighbors(point)
            IN  Cardinality({ k \in 1..8 :
                    /\ valid_location(array, neighbors[k])
                    /\ value_at_point(array, neighbors[k]) = "@" })
    IN  SelectSeq(all_points_list(array),
                  LAMBDA point : value_at_point(array, point) = "@" /\ roll_count(point) < 5)

\* get_accessible_locations(grid)
get_accessible_locations(array) ==
    LET roll_count(point) ==
            LET neighbors == yield_neighbors(point)
            IN  Cardinality({ k \in 1..8 :
                    /\ valid_location(array, neighbors[k])
                    /\ value_at_point(array, neighbors[k]) = "@" })
    IN  SelectSeq(all_points_list(array),
                  LAMBDA point : value_at_point(array, point) = "@" /\ roll_count(point) < 4)

\* grid.set_value_at_point(loc, value) for every loc of the list
set_value_at_points(array, locs, value) ==
    [y \in 1..height(array) |-> [x \in 1..width(array) |->
        IF Point(x - 1, y - 1) \in Range(locs) THEN value ELSE array[y][x]]]

\* the grids: any first and last row, rolls everywhere between them
ForkliftInputs(w, h) ==
    { [y \in 1..h |-> IF y \in {1, h} THEN rows[y] ELSE [x \in 1..w |-> "@"]] :
        rows \in [{1, h} -> [1..w -> {".", "@"}]] }

\* the number of rolls of a grid
Rolls(array) == Cardinality({ p \in all_points(array) : value_at_point(array, p) = "@" })

ForkliftInit ==
    /\ \E w \in 1..MaxSide, h \in 1..MaxSide : fk_array \in ForkliftInputs(w, h)
    /\ fk_vis \in BOOLEAN
    /\ fk_removed = 0
    /\ fk_ret = [done |-> FALSE, value |-> 0]
    /\ fk_before = fk_array
    /\ fk_rolls = Rolls(fk_array)
    /\ fk_rounds = 0
    /\ ForkliftRestIdle

\* one turn of `while True` that finds rolls to remove
Round ==
    /\ ~fk_ret.done
    /\ LET accessible_locations == get_accessible_locations(fk_array)
       IN  /\ accessible_locations # <<>>
           /\ fk_array' = set_value_at_points(fk_array, accessible_locations,
                                              IF fk_vis THEN "." ELSE "X")
           /\ fk_removed' = fk_removed + Len(accessible_locations)
    /\ fk_before' = fk_array
    /\ fk_rounds' = fk_rounds + 1
    /\ UNCHANGED <<fk_vis, fk_ret, fk_rolls, forkliftRest>>

\* the turn that finds none: break, return rolls_removed
ReturnRemoved ==
    /\ ~fk_ret.done
    /\ get_accessible_locations(fk_array) = <<>>
    /\ fk_ret' = [done |-> TRUE, value |-> fk_removed]
    /\ UNCHANGED <<fk_array, fk_vis, fk_removed, fk_before, fk_rolls, fk_rounds, forkliftRest>>

ForkliftNext == Round \/ ReturnRemoved

SpecForklift == ForkliftInit /\ [][ForkliftNext]_vars

\* the rolls among the eight neighbours of a point
RollsAround(array, p) ==
    Cardinality({ d \in ({-1, 0, 1} \X {-1, 0, 1}) \ {<<0, 0>>} :
        /\ valid_location(array, Point(p.x + d[1], p.y + d[2]))
        /\ value_at_point(array, Point(p.x + d[1], p.y + d[2])) = "@" })

\* C16: part2 comes to its end on every grid; a round removes every roll that
\* had fewer than four rolls around it when the round began, and no other; it
\* stops at the first round without such a roll and returns the number of rolls
\* removed; at the stop every roll left has four rolls or more around it, and
\* the number returned is at most the number of rolls of the input
C16_Part2RemovesRoundByRound ==
    /\ fk_removed + Rolls(fk_array) = fk_rolls
    /\ fk_rounds <= fk_removed
    /\ fk_rounds >= 1 =>
          \A p \in all_points(fk_array) :
              IF value_at_point(fk_before, p) = "@" /\ RollsAround(fk_before, p) < 4
              THEN value_at_point(fk_array, p) # "@"
              ELSE value_at_point(fk_array, p) = value_at_point(fk_before, p)
    /\ fk_ret.done =>
          /\ fk_ret.value = fk_removed
          /\ fk_ret.value <= fk_rolls
          /\ \A p \in all_points(fk_array) :
                value_at_point(fk_array, p) = "@" => RollsAround(fk_array, p) >= 4

\* part2 stopped after a round that removed rolls, with rolls left on the grid
C16_Witness ==
    /\ fk_ret.done
    /\ fk_rounds >= 1
    /\ Rolls(fk_array) >= 1

\* part2 stopped after three rounds or more with every roll removed
C16_AllRemoved ==
    /\ fk_ret.done
    /\ fk_rounds >= 3
    /\ Rolls(fk_array) = 0

-----------------------------------------------------------------------------
(* part1 and part2 of AoC 2025 d03: the largest joltage of a bank of batteries *)

MaxDigit == 2
MaxBankLen == 4
MaxBatteries == 3
MaxSpare == 1

\* part2: part1(data, 12)
Part2Batteries == 12

\* A Python int that may pass 2^31, kept as two limbs: hi * 1000000 + lo with
\* lo < 1000000
BigZero == [hi |-> 0, lo |-> 0]

\* Python's int() on a string of decimal digits, as such a number
RECURSIVE int_big(_)
int_big(s) ==
    IF s = <<>>
    THEN BigZero
    ELSE LET n == int_big(SubSeq(s, 1, Len(s) - 1))
             t == n.lo * 10 + DigitVal(s[Len(s)])
         IN  [hi |-> n.hi * 10 + (t \div 1000000), lo |-> t % 1000000]

big_add(a, b) ==
    [hi |-> a.hi + b.hi + ((a.lo + b.lo) \div 1000000), lo |-> (a.lo + b.lo) % 1000000]

big_le(a, b) == a.hi < b.hi \/ (a.hi = b.hi /\ a.lo <= b.lo)

\* sum(max_joltages)
RECURSIVE big_sum(_)
big_sum(max_joltages) ==
    IF max_joltages = <<>>
    THEN BigZero
    ELSE big_add(max_joltages[1], big_sum(Tail(max_joltages)))

\* the stop of the slice bank_joltages[... : stop]: a negative stop counts from
\* the end of the list
slice_stop(bank_len, stop) ==
    IF stop >= 0 THEN stop ELSE max(0, stop + bank_len)

\* the loop that takes the last place of the largest digit of the slice
RECURSIVE enable_batteries_last(_, _, _, _)
enable_batteries_last(bank_joltages, bank_index, batteries_remaining, picked) ==
    IF batteries_remaining <= 0
    THEN [raised |-> FALSE, picked |-> picked]
    ELSE LET bank_len     == Len(bank_joltages)
             stop         == slice_stop(bank_len, bank_len - batteries_remaining + 1)
             search_slice == (bank_index + 1)..(stop - 1)
         IN  IF search_slice = {}
             THEN [raised |-> TRUE, picked |-> picked]
             ELSE LET battery_joltage ==
                          CHOOSE j \in { bank_joltages[i + 1] : i \in search_slice } :
                              \A i \in search_slice : bank_joltages[i + 1] <= j
                      found ==
                          CHOOSE i \in search_slice :
                              /\ bank_joltages[i + 1] = battery_joltage
                              /\ \A k \in search_slice :
                                    bank_joltages[k + 1] = battery_joltage => k <= i
                  IN  enable_batteries_last(bank_joltages, found, batteries_remaining - 1,
                                            Append(picked, found))

\* `while batteries_remaining > 0` of part1 for one bank, with the indexes as
\* Python counts them, from 0: max(search_slice) raises ValueError on an empty
\* slice; index(value, start) gives the first place from start on
RECURSIVE enable_batteries(_, _, _, _)
enable_batteries(bank_joltages, bank_index, batteries_remaining, picked) ==
    IF batteries_remaining <= 0
    THEN [raised |-> FALSE, picked |-> picked]
    ELSE LET bank_len     == Len(bank_joltages)
             stop         == slice_stop(bank_len, bank_len - batteries_remaining + 1)
             search_slice == (bank_index + 1)..(stop - 1)
         IN  IF search_slice = {}
             THEN [raised |-> TRUE, picked |-> picked]
             ELSE LET battery_joltage ==
                          CHOOSE j \in { bank_joltages[i + 1] : i \in search_slice } :
                              \A i \in search_slice : bank_joltages[i + 1] <= j
                      found ==
                          CHOOSE i \in (bank_index + 1)..(bank_len - 1) :
                              /\ bank_joltages[i + 1] = battery_joltage
                              /\ \A k \in (bank_index + 1)..(i - 1) :
                                    bank_joltages[k + 1] # battery_joltage
                  IN  enable_batteries(bank_joltages, found, batteries_remaining - 1,
                                       Append(picked, found))

\* the body of `for bank in data`: the places picked and the number they give
max_joltage(bank, num_batteries) ==
    LET bank_joltages == [i \in 1..Len(bank) |-> int(<<bank[i]>>)]
        e             == enable_batteries(bank_joltages, -1, num_batteries, <<>>)
        enabled       == [k \in 1..Len(e.picked) |-> bank_joltages[e.picked[k] + 1]]
        text          == [k \in 1..Len(enabled) |-> str(enabled[k])[1]]
    IN  [raised |-> e.raised, picked |-> e.picked,
         joltage |-> IF e.raised THEN BigZero ELSE int_big(text)]

\* the banks of up to MaxBankLen digits 0..MaxDigit
ShortBanks == UNION { [1..n -> { DigitChars[d + 1] : d \in 0..MaxDigit }] : n \in 1..MaxBankLen }

\* the banks that have up to MaxSpare digits more than part2 picks: a short
\* bank written over and over up to that length
LongBanks ==
    { [i \in 1..(Part2Batteries + n) |-> bank[((i - 1) % Len(bank)) + 1]] :
        bank \in ShortBanks, n \in 1..MaxSpare }

Reverse(seq) == [i \in 1..Len(seq) |-> seq[Len(seq) + 1 - i]]

JoltageInit ==
    /\ \/ /\ jb_fn = "part1"
          /\ jb_num \in 1..MaxBatteries
          /\ \E bank \in ShortBanks : jb_data \in {<<bank>>, <<bank, Reverse(bank)>>}
       \/ /\ jb_fn = "part2"
          /\ jb_num = Part2Batteries
          /\ \E bank \in LongBanks : jb_data = <<bank>>
    /\ jb_banks = 0
    /\ jb_max_joltages = <<>>
    /\ jb_picked = <<>>
    /\ jb_ret = [done |-> FALSE, raised |-> FALSE, value |-> BigZero]
    /\ JoltageRestIdle

\* one turn of `for bank in data`
Bank ==
    /\ ~jb_ret.done
    /\ jb_banks < Len(jb_data)
    /\ LET m == max_joltage(jb_data[jb_banks + 1], jb_num)
       IN  /\ jb_picked' = Append(jb_picked, m.picked)
           /\ IF m.raised
              THEN /\ jb_ret' = [done |-> TRUE, raised |-> TRUE, value |-> BigZero]
                   /\ UNCHANGED jb_max_joltages
              ELSE /\ jb_max_joltages' = Append(jb_max_joltages, m.joltage)
                   /\ UNCHANGED jb_ret
    /\ jb_banks' = jb_banks + 1
    /\ UNCHANGED <<jb_fn, jb_data, jb_num, joltageRest>>

\* return sum(max_joltages)
ReturnSum ==
    /\ ~jb_ret.done
    /\ jb_banks = Len(jb_data)
    /\ jb_ret' = [done |-> TRUE, raised |-> FALSE, value |-> big_sum(jb_max_joltages)]
    /\ UNCHANGED <<jb_fn, jb_data, jb_num, jb_banks, jb_max_joltages, jb_picked, joltageRest>>

JoltageNext == Bank \/ ReturnSum

SpecJoltage == JoltageInit /\ [][JoltageNext]_vars

\* the sets of k of the numbers 1..n
RECURSIVE Choices(_, _)
Choices(n, k) ==
    IF k = 0 THEN {{}}
    ELSE IF k > n THEN {}
    ELSE Choices(n - 1, k) \cup { c \cup {n} : c \in Choices(n - 1, k - 1) }

\* the digits of the bank but for the places dropped, in their order
RECURSIVE Kept(_, _, _)
Kept(bank, dropped, i) ==
    IF i > Len(bank) THEN <<>>
    ELSE IF i \in dropped THEN Kept(bank, dropped, i + 1)
    ELSE <<bank[i]>> \o Kept(bank, dropped, i + 1)

\* every number that keeping exactly num digits of the bank in order can give
Obtainable(bank, num) ==
    { int_big(Kept(bank, dropped, 1)) : dropped \in Choices(Len(bank), Len(bank) - num) }

\* C17: on a bank that has num_batteries digits or more the selection picks
\* places that strictly increase and gives the largest number that keeping
\* exactly num_batteries digits of the bank in order can give; part2 is the
\* selection with 12 batteries
C17_GreedyGivesLargestJoltage ==
    /\ jb_fn = "part2" => jb_num = 12
    /\ \A b \in 1..Len(jb_picked) :
          Len(jb_data[b]) >= jb_num =>
              /\ Len(jb_picked[b]) = jb_num
              /\ \A k \in 1..(jb_num - 1) : jb_picked[b][k] < jb_picked[b][k + 1]
              /\ Len(jb_max_joltages) >= b
              /\ jb_max_joltages[b] \in Obtainable(jb_data[b], jb_num)
              /\ \A n \in Obtainable(jb_data[b], jb_num) : big_le(n, jb_max_joltages[b])

\* part2 went through a bank of more than 12 digits and picked around a digit
\* in the middle of it
C17_Witness ==
    /\ jb_fn = "part2" /\ jb_ret.done /\ ~jb_ret.raised
    /\ \E k \in 1..11 : jb_picked[1][k] + 1 < jb_picked[1][k + 1]
    /\ jb_ret.value.hi >= 100000

-----------------------------------------------------------------------------
(* Machine.get_presses of AoC 2025 d10: the fewest presses to light the target *)

MaxMask == 7
MaxButtons == 3

\* a ^ b on two natural numbers
RECURSIVE xor(_, _)
xor(a, b) ==
    IF a = 0 /\ b = 0
    THEN 0
    ELSE (((a % 2) + (b % 2)) % 2) + 2 * xor(a \div 2, b \div 2)

\* itertools.combinations(seq, k), in its order
RECURSIVE itertools_combinations(_, _)
itertools_combinations(seq, k) ==
    IF k = 0 THEN << <<>> >>
    ELSE IF Len(seq) < k THEN <<>>
    ELSE LET with == itertools_combinations(Tail(seq), k - 1)
         IN  [i \in 1..Len(with) |-> <<seq[1]>> \o with[i]]
                \o itertools_combinations(Tail(seq), k)

\* current_state after `for mask in combo: current_state ^= mask`
RECURSIVE press(_, _)
press(current_state, combo) ==
    IF combo = <<>> THEN current_state
    ELSE press(xor(current_state, combo[1]), Tail(combo))

\* the search that tries k buttons and never k + 1
get_presses_from_once(button_masks, target_state, k) ==
    IF \E i \in 1..Len(itertools_combinations(button_masks, k)) :
          press(0, itertools_combinations(button_masks, k)[i]) = target_state
    THEN [raised |-> FALSE, value |-> k]
    ELSE [raised |-> TRUE, value |-> 0]

\* `for k in range(num_buttons + 1)` from k on: the first k with a combination
\* that gives target_state, ValueError after the last
RECURSIVE get_presses_from(_, _, _)
get_presses_from(button_masks, target_state, k) ==
    IF k > Len(button_masks)
    THEN [raised |-> TRUE, value |-> 0]
    ELSE IF \E i \in 1..Len(itertools_combinations(button_masks, k)) :
               press(0, itertools_combinations(button_masks, k)[i]) = target_state
    THEN [raised |-> FALSE, value |-> k]
    ELSE get_presses_from(button_masks, target_state, k + 1)

\* Machine.get_presses()
get_presses(button_masks, target_state) == get_presses_from(button_masks, target_state, 0)

MachineInit ==
    /\ mc_target_state \in 0..MaxMask
    /\ \E n \in 0..MaxButtons : mc_button_masks \in [1..n -> 1..MaxMask]
    /\ mc_ret = [done |-> FALSE, raised |-> FALSE, value |-> 0]
    /\ MachineRestIdle

\* a call of get_presses()
GetPresses ==
    /\ ~mc_ret.done
    /\ LET r == get_presses(mc_button_masks, mc_target_state)
       IN  mc_ret' = [done |-> TRUE, raised |-> r.raised, value |-> r.value]
    /\ UNCHANGED <<mc_target_state, mc_button_masks, machineRest>>

MachineNext == GetPresses

SpecMachine == MachineInit /\ [][MachineNext]_vars

\* the states of the lights one press of any button away from a state of the set
OnePress(states) ==
    { xor(s, mc_button_masks[b]) : s \in states, b \in 1..Len(mc_button_masks) }

\* the states of the lights that exactly k presses, of any buttons in any order,
\* can give from all-off
RECURSIVE After(_)
After(k) == IF k = 0 THEN {0} ELSE OnePress(After(k - 1))

\* every state of the lights that some sequence of presses gives
RECURSIVE Reachable(_)
Reachable(states) ==
    IF OnePress(states) \subseteq states THEN states ELSE Reachable(states \cup OnePress(states))

\* C18: get_presses returns the fewest presses, of any buttons any number of
\* times in any order, that take the lights from all-off to target_state, and
\* raises ValueError exactly when no sequence of presses gives target_state
C18_FewestPresses ==
    mc_ret.done =>
        /\ mc_ret.raised <=> mc_target_state \notin Reachable({0})
        /\ ~mc_ret.raised =>
              /\ mc_target_state \in After(mc_ret.value)
              /\ \A k \in 0..(mc_ret.value - 1) : mc_target_state \notin After(k)

\* get_presses returned three presses
C18_Witness == mc_ret.done /\ ~mc_ret.raised /\ mc_ret.value = 3

\* get_presses raised ValueError with buttons to press
C18_Raised == mc_ret.done /\ mc_ret.raised /\ Len(mc_button_masks) >= 2

-----------------------------------------------------------------------------
(* part1 and part2 of AoC 2025 d09: the largest rectangle of red and green tiles *)

MaxTile == 3

min(a, b) == IF a <= b THEN a ELSE b

abs(a) == IF a >= 0 THEN a ELSE -a

\* (abs(point2.x - point1.x) + 1) * (abs(point2.y - point1.y) + 1)
rectangle_area(point1, point2) ==
    (abs(point2.x - point1.x) + 1) * (abs(point2.y - point1.y) + 1)

\* part1 on the tiles of the input: the largest area over all pairs of the set
d09_part1(tiles) ==
    LET red_tiles == Range(tiles)
        areas     == { rectangle_area(pair[1], pair[2]) :
                         pair \in { pair \in red_tiles \X red_tiles : pair[1] # pair[2] } }
    IN  IF areas = {} THEN 0 ELSE CHOOSE a \in areas : \A b \in areas : b <= a

\* PolygonSolver.__init__: the edge from corner i to the next one, i from 1
edge_of(corners, i) ==
    LET p1 == corners[i]
        p2 == corners[(i % Len(corners)) + 1]
    IN  IF p1.x = p2.x
        THEN [vertical |-> TRUE, at |-> p1.x, lo |-> min(p1.y, p2.y), hi |-> max(p1.y, p2.y)]
        ELSE [vertical |-> FALSE, at |-> p1.y, lo |-> min(p1.x, p2.x), hi |-> max(p1.x, p2.x)]

\* self.vertical_edges: (x, y_min, y_max) as [at, lo, hi]
vertical_edges(corners) ==
    SelectSeq([i \in 1..Len(corners) |-> edge_of(corners, i)], LAMBDA e : e.vertical)

\* self.horizontal_edges: (x_min, x_max, y) as [lo, hi, at]
horizontal_edges(corners) ==
    SelectSeq([i \in 1..Len(corners) |-> edge_of(corners, i)], LAMBDA e : ~e.vertical)

\* PolygonSolver.is_point_inside(px, py) for the point (px2 / 2, py2 / 2): the
\* code hands over coordinates that end in .5, here they are doubled
is_point_inside(corners, px2, py2) ==
    LET intersections ==
            Cardinality({ i \in 1..Len(vertical_edges(corners)) :
                LET e == vertical_edges(corners)[i]
                IN  /\ 2 * e.at > px2
                    /\ 2 * e.lo <= py2 /\ py2 < 2 * e.hi })
    IN  intersections % 2 = 1

\* PolygonSolver.intersects_rect(r_min_x, r_min_y, r_max_x, r_max_y)
intersects_rect(corners, r_min_x, r_min_y, r_max_x, r_max_y) ==
    \/ \E i \in 1..Len(vertical_edges(corners)) :
          LET e == vertical_edges(corners)[i]
          IN  /\ r_min_x < e.at /\ e.at < r_max_x
              /\ max(e.lo, r_min_y) < min(e.hi, r_max_y)
    \/ \E i \in 1..Len(horizontal_edges(corners)) :
          LET e == horizontal_edges(corners)[i]
          IN  /\ r_min_y < e.at /\ e.at < r_max_y
              /\ max(e.lo, r_min_x) < min(e.hi, r_max_x)

\* the loop of part2 over combinations(red_tiles, 2), from the k-th pair on
RECURSIVE largest_valid(_, _, _, _)
largest_valid(red_tiles, pairs, k, biggest_area) ==
    IF k > Len(pairs)
    THEN biggest_area
    ELSE LET p1      == pairs[k][1]
             p2      == pairs[k][2]
             area    == (abs(p1.x - p2.x) + 1) * (abs(p1.y - p2.y) + 1)
             r_min_x == min(p1.x, p2.x)
             r_max_x == max(p1.x, p2.x)
             r_min_y == min(p1.y, p2.y)
             r_max_y == max(p1.y, p2.y)
         IN  IF area <= biggest_area
             THEN largest_valid(red_tiles, pairs, k + 1, biggest_area)
             ELSE IF /\ is_point_inside(red_tiles, 2 * r_min_x + 1, 2 * r_min_y + 1)
                     /\ ~intersects_rect(red_tiles, r_min_x, r_min_y, r_max_x, r_max_y)
             THEN largest_valid(red_tiles, pairs, k + 1, area)
             ELSE largest_valid(red_tiles, pairs, k + 1, biggest_area)

\* part2 on the tiles of the input
d09_part2(red_tiles) == largest_valid(red_tiles, combinations(red_tiles), 1, 0)

\* a point of the rectangle (0, 0)..(w, h) turned over: mirrored in x, in y,
\* and with x and y swapped
Turned(p, w, h, t) ==
    LET x == IF t.mx THEN w - p.x ELSE p.x
        y == IF t.my THEN h - p.y ELSE p.y
    IN  IF t.swap THEN Point(y, x) ELSE Point(x, y)

\* a list of corners, read from its k-th corner on, forwards or backwards
ReadFrom(corners, k, back) ==
    LET n    == Len(corners)
        from == [i \in 1..n |-> corners[((i + k - 2) % n) + 1]]
    IN  IF back THEN Reverse(from) ELSE from

\* the loops: the rectangle (0, 0)..(w, h), whole or with a notch of depth d cut
\* into its left side between the rows a and b, turned over and read from the
\* first or the second corner, either way round
LoopInputs ==
    LET whole(w, h) == <<Point(0, 0), Point(w, 0), Point(w, h), Point(0, h)>>
        notched(w, h, a, b, d) ==
            <<Point(0, 0), Point(w, 0), Point(w, h), Point(0, h),
              Point(0, b), Point(d, b), Point(d, a), Point(0, a)>>
        shapes ==
            { [w |-> w, h |-> h, corners |-> whole(w, h)] : w \in 1..MaxTile, h \in 1..MaxTile }
            \cup { [w |-> w, h |-> h, corners |-> notched(w, h, a, b, d)] :
                      w \in 2..MaxTile, h \in 3..MaxTile,
                      a \in 1..MaxTile, b \in 2..MaxTile, d \in 1..MaxTile }
        fits(s) ==
            Len(s.corners) = 8 =>
                /\ s.corners[8].y < s.corners[5].y
                /\ s.corners[5].y < s.h
                /\ s.corners[6].x < s.w
    IN  { ReadFrom([i \in 1..Len(s.corners) |-> Turned(s.corners[i], s.w, s.h, t)], k, back) :
            s \in { s \in shapes : fits(s) },
            t \in [mx : BOOLEAN, my : BOOLEAN, swap : BOOLEAN],
            k \in 1..2, back \in BOOLEAN }

PolygonInit ==
    /\ pg_red_tiles \in LoopInputs
    /\ pg_part1 = [done |-> FALSE, value |-> 0]
    /\ pg_part2 = [done |-> FALSE, value |-> 0]
    /\ PolygonRestIdle

\* a call of part1(data)
Part1 ==
    /\ ~pg_part1.done
    /\ pg_part1' = [done |-> TRUE, value |-> d09_part1(pg_red_tiles)]
    /\ UNCHANGED <<pg_red_tiles, pg_part2, polygonRest>>

\* a call of part2(data)
Part2 ==
    /\ ~pg_part2.done
    /\ pg_part2' = [done |-> TRUE, value |-> d09_part2(pg_red_tiles)]
    /\ UNCHANGED <<pg_red_tiles, pg_part1, polygonRest>>

PolygonNext == Part1 \/ Part2

SpecPolygon == PolygonInit /\ [][PolygonNext]_vars

\* the tiles on the loop: the red corners and the green tiles between
\* consecutive corners
LoopTiles ==
    UNION { { Point(x, y) :
                x \in min(pg_red_tiles[i].x, pg_red_tiles[(i % Len(pg_red_tiles)) + 1].x)..
                      max(pg_red_tiles[i].x, pg_red_tiles[(i % Len(pg_red_tiles)) + 1].x),
                y \in min(pg_red_tiles[i].y, pg_red_tiles[(i % Len(pg_red_tiles)) + 1].y)..
                      max(pg_red_tiles[i].y, pg_red_tiles[(i % Len(pg_red_tiles)) + 1].y) } :
            i \in 1..Len(pg_red_tiles) }

\* the tiles of the floor and of one ring of tiles around it
Floor == { Point(x, y) : x \in (-1)..(MaxTile + 1), y \in (-1)..(MaxTile + 1) }

\* the tiles of the floor off the loop that a walk from the set reaches, side
\* to side, without stepping on the loop
RECURSIVE Outside(_)
Outside(set) ==
    LET more == set \cup { q \in Floor \ LoopTiles :
                    \E p \in set : abs(p.x - q.x) + abs(p.y - q.y) = 1 }
    IN  IF more = set THEN set ELSE Outside(more)

\* the tiles that are neither on the loop nor enclosed by it
OtherTiles == Outside({Point(-1, -1)})

\* the rectangle with two tiles as opposite corners holds none of the tiles
RectangleFree(p, q, tiles) ==
    \A x \in min(p.x, q.x)..max(p.x, q.x), y \in min(p.y, q.y)..max(p.y, q.y) :
        Point(x, y) \notin tiles

\* the largest area of a rectangle of red and green tiles between two red tiles
LargestRedGreen ==
    LET others == OtherTiles
        areas  == { rectangle_area(pq[1], pq[2]) :
                      pq \in { pq \in Range(pg_red_tiles) \X Range(pg_red_tiles) :
                                  pq[1] # pq[2] /\ RectangleFree(pq[1], pq[2], others) } }
    IN  IF areas = {} THEN 0 ELSE CHOOSE a \in areas : \A b \in areas : b <= a

\* C19: for every closed rectilinear loop of red tiles part2 returns the
\* largest area (|dx| + 1) * (|dy| + 1) over the pairs of red tiles whose
\* rectangle holds only tiles on the loop or enclosed by it, rectangles one tile
\* wide or high included, and never more than part1 returns for the same input
C19_Part2LargestRedGreenRectangle ==
    pg_part2.done =>
        /\ pg_part2.value = LargestRedGreen
        /\ pg_part1.done => pg_part2.value <= pg_part1.value

\* four tiles that are red or green lie around a spot that the line through
\* the middles of the loop's tiles leaves outside: the loop has a gap no tile
\* fits into
Gap ==
    LET others == OtherTiles
    IN  \E x \in 0..(MaxTile - 1), y \in 0..(MaxTile - 1) :
            /\ RectangleFree(Point(x, y), Point(x + 1, y + 1), others)
            /\ ~is_point_inside(pg_red_tiles, 2 * x + 1, 2 * y + 1)

\* part2 returned on a loop with such a gap
C19_GapLoop == pg_part2.done /\ Gap

\* part2 keeps to the claim on every loop without such a gap
C19_HoldsWithoutGap == ~Gap => C19_Part2LargestRedGreenRectangle

-----------------------------------------------------------------------------
(* part2 of AoC 2018 d01: the first frequency reached twice *)

MaxChange == 2
MaxChanges == 3
MaxTurns == 6

\* Python's int() on a line of the input: decimal digits behind a sign
int_signed(s) ==
    IF s[1] = "-" THEN -int(Tail(s))
    ELSE IF s[1] = "+" THEN int(Tail(s))
    ELSE int(s)

\* a line of the input: a frequency change with its sign
Change(n) == IF n >= 0 THEN <<"+">> \o str(n) ELSE <<"-">> \o str(-n)

\* one turn of `for freq_chg in cycle(data)`
part2_turn(freq, seen, freq_chg) ==
    LET new == freq + int_signed(freq_chg)
    IN  IF new \in seen
        THEN [freq |-> new, seen |-> seen, break |-> TRUE]
        ELSE [freq |-> new, seen |-> seen \cup {new}, break |-> FALSE]

FrequencyInit ==
    /\ \E n \in 1..MaxChanges :
          fq_data \in [1..n -> { Change(c) : c \in (-MaxChange)..MaxChange }]
    /\ fq_next = 1
    /\ fq_freq = 0
    /\ fq_seen = {}
    /\ fq_ret = [done |-> FALSE, value |-> 0]
    /\ fq_trail = <<0>>
    /\ FrequencyRestIdle

\* a turn of the loop that goes on
Apply ==
    /\ ~fq_ret.done
    /\ Len(fq_trail) <= MaxTurns
    /\ LET t == part2_turn(fq_freq, fq_seen, fq_data[fq_next])
       IN  /\ ~t.break
           /\ fq_freq' = t.freq
           /\ fq_seen' = t.seen
           /\ fq_trail' = Append(fq_trail, t.freq)
    /\ fq_next' = (fq_next % Len(fq_data)) + 1
    /\ UNCHANGED <<fq_data, fq_ret, frequencyRest>>

\* the turn that finds the frequency in seen: break, return freq
ReturnRepeat ==
    /\ ~fq_ret.done
    /\ Len(fq_trail) <= MaxTurns
    /\ LET t == part2_turn(fq_freq, fq_seen, fq_data[fq_next])
       IN  /\ t.break
           /\ fq_freq' = t.freq
           /\ fq_seen' = t.seen
           /\ fq_trail' = Append(fq_trail, t.freq)
           /\ fq_ret' = [done |-> TRUE, value |-> t.freq]
    /\ UNCHANGED <<fq_data, fq_next, frequencyRest>>

FrequencyNext == Apply \/ ReturnRepeat

SpecFrequency == FrequencyInit /\ [][FrequencyNext]_vars

\* no frequency comes twice among the first n of the trail
NoRepeat(n) == \A i, j \in 1..n : i # j => fq_trail[i] # fq_trail[j]

\* C20: part2 applies the changes over and over and returns the first
\* frequency that is seen for the second time, the starting frequency 0 and the
\* frequency after every change being the ones seen; it stops at that repeat
C20_Part2ReturnsFirstRepeat ==
    /\ \A k \in 2..Len(fq_trail) :
          fq_trail[k] = fq_trail[k - 1] + int_signed(fq_data[((k - 2) % Len(fq_data)) + 1])
    /\ NoRepeat(Len(fq_trail) - 1)
    /\ IF fq_ret.done
       THEN /\ fq_ret.value = fq_trail[Len(fq_trail)]
            /\ ~NoRepeat(Len(fq_trail))
       ELSE NoRepeat(Len(fq_trail))

\* the frequency came back to the starting frequency before any other repeat
C20_BackAtStart ==
    \E k \in 2..Len(fq_trail) : fq_trail[k] = 0 /\ NoRepeat(k - 1)

\* part2 keeps to the claim whenever the first repeat is not the starting frequency
C20_HoldsUnlessBackAtStart == C20_BackAtStart \/ C20_Part2ReturnsFirstRepeat

-----------------------------------------------------------------------------
(* part1 and part2 of AoC 2018 d03: the claims on the fabric *)

FabricSide == 1000
MaxClaims == 3
MaxLeft == 1
MaxTop == 1

\* the dataclass Claim
Claim(claim_id, x, y, w, h) ==
    [claim_id |-> claim_id, x |-> x, y |-> y, width |-> w, height |-> h]

\* the columns and the rows that a claim of the inputs can name
FabricColumns == (0..(MaxLeft + 1)) \cup ((FabricSide - 1)..(FabricSide + 1))
FabricRows == 0..(MaxTop + 1)

\* np.zeros((1000, 1000)): the squares of the array, kept to the columns and
\* rows above (no other square is ever written or read)
zeros ==
    [sq \in { s \in FabricColumns \X FabricRows : s[1] < FabricSide /\ s[2] < FabricSide } |-> 0]

\* array[x:x+width, y:y+height]: the squares of the slice; numpy cuts a
\* slice at the end of the array
slice_of(arr, c) ==
    { sq \in DOMAIN arr : /\ c.x <= sq[1] /\ sq[1] < c.x + c.width
                          /\ c.y <= sq[2] /\ sq[2] < c.y + c.height }

\* for claim in claims: array[...] += 1
RECURSIVE increment(_, _, _)
increment(arr, claims, i) ==
    IF i > Len(claims) THEN arr
    ELSE LET cut == slice_of(arr, claims[i])
         IN  increment([sq \in DOMAIN arr |-> IF sq \in cut THEN arr[sq] + 1 ELSE arr[sq]],
                       claims, i + 1)

\* (array > 1).sum()
d03_part1(claims) ==
    LET arr == increment(zeros, claims, 1)
    IN  Cardinality({ sq \in DOMAIN arr : arr[sq] > 1 })

\* the second loop of part2: the first claim whose slice is 1 everywhere,
\* AssertionError when there is none
RECURSIVE first_alone(_, _, _)
first_alone(arr, claims, i) ==
    IF i > Len(claims) THEN [raised |-> TRUE, value |-> 0]
    ELSE IF \A sq \in slice_of(arr, claims[i]) : arr[sq] = 1
         THEN [raised |-> FALSE, value |-> claims[i].claim_id]
         ELSE first_alone(arr, claims, i + 1)

d03_part2(claims) == first_alone(increment(zeros, claims, 1), claims, 1)

\* the left edge and the width of a claim: within the first columns, or at
\* the 1000th column
AcrossInputs ==
    { p \in (0..MaxLeft) \X (1..(MaxLeft + 1)) : p[1] + p[2] <= MaxLeft + 1 }
    \cup { p \in ((FabricSide - 1)..FabricSide) \X (1..2) : p[1] + p[2] <= FabricSide + 1 }

\* the top edge and the height of a claim
DownInputs ==
    { p \in (0..MaxTop) \X (1..(MaxTop + 1)) : p[1] + p[2] <= MaxTop + 1 }

FabricInit ==
    /\ \E n \in 0..MaxClaims :
       \E across \in [1..n -> AcrossInputs], down \in [1..n -> DownInputs] :
          fc_claims = [i \in 1..n |->
                          Claim(i, across[i][1], down[i][1], across[i][2], down[i][2])]
    /\ fc_part1 = [done |-> FALSE, value |-> 0]
    /\ fc_part2 = [done |-> FALSE, raised |-> FALSE, value |-> 0]
    /\ FabricRestIdle

FabricPart1 ==
    /\ ~fc_part1.done
    /\ fc_part1' = [done |-> TRUE, value |-> d03_part1(fc_claims)]
    /\ UNCHANGED <<fc_claims, fc_part2, fabricRest>>

FabricPart2 ==
    /\ ~fc_part2.done
    /\ LET r == d03_part2(fc_claims)
       IN  fc_part2' = [done |-> TRUE, raised |-> r.raised, value |-> r.value]
    /\ UNCHANGED <<fc_claims, fc_part1, fabricRest>>

FabricNext == FabricPart1 \/ FabricPart2

SpecFabric == FabricInit /\ [][FabricNext]_vars

\* the squares of the rectangle of the claim at place i
Rectangle(i) ==
    LET c == fc_claims[i]
    IN  (c.x..(c.x + c.width - 1)) \X (c.y..(c.y + c.height - 1))

\* the claim at place i shares a square with another claim
Overlaps(i) ==
    \E j \in 1..Len(fc_claims) : j # i /\ Rectangle(i) \cap Rectangle(j) # {}

\* the squares within two or more claims
WithinTwoOrMore ==
    { sq \in FabricColumns \X FabricRows :
         \E i, j \in 1..Len(fc_claims) :
            i # j /\ sq \in Rectangle(i) /\ sq \in Rectangle(j) }

\* C21: part2 returns the ID of a claim whose rectangle shares no square with
\* any other claim's rectangle, so that it has no square among the squares
\* within two or more claims that part1 counts; it raises AssertionError
\* exactly when every claim overlaps another one
C21_Part2ReturnsClaimThatDoesNotOverlap ==
    fc_part2.done =>
        IF fc_part2.raised
        THEN \A i \in 1..Len(fc_claims) : Overlaps(i)
        ELSE \E i \in 1..Len(fc_claims) :
                /\ fc_claims[i].claim_id = fc_part2.value
                /\ ~Overlaps(i)
                /\ Rectangle(i) \cap WithinTwoOrMore = {}

\* part1 counts the squares within two or more claims
Part1CountsWithinTwoOrMore ==
    fc_part1.done => fc_part1.value = Cardinality(WithinTwoOrMore)

\* two claims share a square beyond the 1000th column and part2 has returned
C21_BeyondTheArray ==
    /\ fc_part2.done
    /\ ~fc_part2.raised
    /\ \A i \in 1..Len(fc_claims) : Overlaps(i)

\* every claim lies within the 1000 columns and rows of the array
InsideFabric ==
    \A i \in 1..Len(fc_claims) :
        /\ fc_claims[i].x + fc_claims[i].width <= FabricSide
        /\ fc_claims[i].y + fc_claims[i].height <= FabricSide

\* part1 and part2 keep to the claim when all claims lie within the array
C21_HoldsInsideFabric ==
    InsideFabric =>
        C21_Part2ReturnsClaimThatDoesNotOverlap /\ Part1CountsWithinTwoOrMore

\* part2 has returned a claim that stands apart, next to claims that overlap
C21_ReturnedAmongOverlaps ==
    /\ InsideFabric
    /\ fc_part2.done
    /\ ~fc_part2.raised
    /\ \E i \in 1..Len(fc_claims) : Overlaps(i)

\* part2 has raised AssertionError over claims within the array
C21_RaisedInsideFabric ==
    /\ InsideFabric
    /\ fc_part2.done
    /\ fc_part2.raised
    /\ Len(fc_claims) > 0

====
